---------------------------- MODULE Spec2Model ----------------------------
(***************************************************************************)
(* A model of the A/B-test statistics engine of data-learning-lab          *)
(* (src/ab-test): the per-user counters, the event-application steps that  *)
(* change them, and the estimators and diagnostics that read them.         *)
(*                                                                         *)
(* Numbers.  A JavaScript number is modelled as an exact fraction          *)
(* [n |-> numerator, d |-> denominator] in lowest terms with d > 0, or as  *)
(* one of the three values a division by zero produces: Infinity (1/0),    *)
(* -Infinity (-1/0) and NaN (0/0).  Rounding of binary floating point and  *)
(* the sign of zero are not modelled.                                      *)
(***************************************************************************)
EXTENDS Integers, Sequences, FiniteSets, TLC

(***************************************************************************)
(* Bounds of the model.                                                    *)
(***************************************************************************)
MaxUsers == 2          \* users of the simulated population (config.totalUsers)
MaxEvents == 2         \* events applied to the population in one run
MaxBatch == 2          \* events one tick applies (eventsPerTick)
MaxMetricValue == 1    \* largest metricValue of one continuous event
MaxElapsed == 2        \* simulated seconds a run lasts
LaunchTime == 1        \* config.launchTime, in simulated seconds
MaxCupedUsers == 11    \* longest user list handed to computeCUPED
MaxStatsUsers == 2     \* longest user list of one render of the estimators
MaxRenderedEvents == 2 \* events of a run whose every step is rendered
MaxArrayLen == 3       \* longest array handed to variance and covariance
MaxArrayValue == 1     \* largest element of such an array
MaxLogCalls == 502     \* addLog calls made on the store
MaxClaimCalls == 52    \* addClaim calls made on the store
MaxStarts == 3         \* start() calls made on the hook
MaxSockets == 3        \* WebSockets the store creates
MaxMessages == 2       \* messages the sockets deliver

-----------------------------------------------------------------------------
(***************************************************************************)
(* Numbers                                                                 *)
(***************************************************************************)
Abs(i) == IF i < 0 THEN 0 - i ELSE i

Sign(i) == IF i > 0 THEN 1 ELSE IF i < 0 THEN 0 - 1 ELSE 0

RECURSIVE Gcd(_, _)
Gcd(a, b) == IF b = 0 THEN a ELSE Gcd(b, a % b)

\* The number n/d (d may be 0: the result of a division by zero).
Frac(n, d) ==
    IF d = 0 THEN [n |-> Sign(n), d |-> 0]
    ELSE LET g == Gcd(Abs(n), Abs(d))
             s == Sign(d)
         IN  [n |-> (s * n) \div g, d |-> (s * d) \div g]

Num(i) == [n |-> i, d |-> 1]
Zero == Num(0)
One == Num(1)
NaN == [n |-> 0, d |-> 0]
PosInf == [n |-> 1, d |-> 0]
NegInf == [n |-> 0 - 1, d |-> 0]

IsFinite(x) == x.d # 0
IsNaN(x) == x.d = 0 /\ x.n = 0
IsZero(x) == x.d # 0 /\ x.n = 0

Neg(x) == [n |-> 0 - x.n, d |-> x.d]

\* x + y
Plus(x, y) ==
    IF IsNaN(x) \/ IsNaN(y) THEN NaN
    ELSE IF x.d = 0 /\ y.d = 0 THEN (IF x.n = y.n THEN x ELSE NaN)
    ELSE IF x.d = 0 THEN x
    ELSE IF y.d = 0 THEN y
    ELSE LET g == Gcd(x.d, y.d)
         IN  Frac(x.n * (y.d \div g) + y.n * (x.d \div g), (x.d \div g) * y.d)

\* x - y
Minus(x, y) == Plus(x, Neg(y))

\* x * y
Times(x, y) ==
    IF IsNaN(x) \/ IsNaN(y) THEN NaN
    ELSE IF x.d = 0 \/ y.d = 0
         THEN (IF x.n = 0 \/ y.n = 0 THEN NaN
               ELSE [n |-> Sign(x.n) * Sign(y.n), d |-> 0])
    ELSE LET g == Gcd(Abs(x.n), y.d)
             h == Gcd(Abs(y.n), x.d)
         IN  Frac((x.n \div g) * (y.n \div h), (x.d \div h) * (y.d \div g))

\* x / y, as JavaScript divides: a zero denominator gives NaN or an infinity.
Div(x, y) ==
    IF IsNaN(x) \/ IsNaN(y) THEN NaN
    ELSE IF x.d = 0 /\ y.d = 0 THEN NaN
    ELSE IF x.d = 0 THEN [n |-> x.n * (IF y.n < 0 THEN 0 - 1 ELSE 1), d |-> 0]
    ELSE IF y.d = 0 THEN Zero
    ELSE IF y.n = 0 THEN [n |-> Sign(x.n), d |-> 0]
    ELSE Times(x, [n |-> Sign(y.n) * y.d, d |-> Abs(y.n)])

\* x < y and x > y; every comparison with NaN is false.
Less(x, y) ==
    /\ ~IsNaN(x)
    /\ ~IsNaN(y)
    /\ IF x.d = 0 /\ y.d = 0 THEN x.n < y.n
       ELSE IF x.d = 0 THEN x.n < 0
       ELSE IF y.d = 0 THEN y.n > 0
       ELSE x.n * y.d < y.n * x.d

Greater(x, y) == Less(y, x)

-----------------------------------------------------------------------------
(***************************************************************************)
(* Numeric primitives (stats/utils.ts)                                     *)
(***************************************************************************)
\* arr.reduce((a, b) => a + b, 0)
RECURSIVE SumSeq(_)
SumSeq(arr) == IF arr = <<>> THEN Zero ELSE Plus(Head(arr), SumSeq(Tail(arr)))

\* mean(arr)
mean(arr) ==
    IF Len(arr) = 0 THEN Zero
    ELSE Div(SumSeq(arr), Num(Len(arr)))

\* variance(arr)
variance(arr) ==
    IF Len(arr) < 2 THEN Zero
    ELSE LET m == mean(arr)
         IN  Div(SumSeq([i \in 1..Len(arr) |->
                           Times(Minus(arr[i], m), Minus(arr[i], m))]),
                 Num(Len(arr) - 1))

\* A variant of covariance that divides by the length (the population
\* covariance).
covarianceOfPopulation(x, y) ==
    IF Len(x) # Len(y) \/ Len(x) < 2 THEN Zero
    ELSE LET meanX == mean(x)
             meanY == mean(y)
         IN  Div(SumSeq([i \in 1..Len(x) |->
                           Times(Minus(x[i], meanX), Minus(y[i], meanY))]),
                 Num(Len(x)))

\* covariance(x, y)
covariance(x, y) ==
    IF Len(x) # Len(y) \/ Len(x) < 2 THEN Zero
    ELSE LET meanX == mean(x)
             meanY == mean(y)
         IN  Div(SumSeq([i \in 1..Len(x) |->
                           Times(Minus(x[i], meanX), Minus(y[i], meanY))]),
                 Num(Len(x) - 1))

(***************************************************************************)
(* Square roots.  The value s * sqrt(q), s in {-1, 0, 1}, is kept as the   *)
(* record [sign |-> s, square |-> q]; the square q is a number as above    *)
(* (NaN for a NaN, 1/0 for an infinity), and s = 0 exactly when q is 0 or  *)
(* NaN.                                                                    *)
(***************************************************************************)
Root(s, q) ==
    IF IsNaN(q) \/ Less(q, Zero) THEN [sign |-> 0, square |-> NaN]
    ELSE IF IsZero(q) \/ s = 0 THEN [sign |-> 0, square |-> Zero]
    ELSE [sign |-> s, square |-> q]

\* Math.sqrt(q)
Sqrt(q) == Root(1, q)

RootIsZero(r) == IsZero(r.square)
RootIsFinite(r) == IsFinite(r.square)

\* zScore(value, se)
zScore(value, se) ==
    IF RootIsZero(se) THEN Root(0, Zero)
    ELSE IF IsNaN(value) THEN Root(0, NaN)
    ELSE Root(Sign(value.n), Div(Times(value, value), se.square))

(***************************************************************************)
(* pValueFromZ works on decimal fixed-point numbers: |z| to three places,  *)
(* everything after it to four.                                            *)
(***************************************************************************)
\* The largest r with r * r <= m, searched between lo and hi.
RECURSIVE IntSqrt(_, _, _)
IntSqrt(m, lo, hi) ==
    IF lo >= hi THEN lo
    ELSE LET mid == (lo + hi + 1) \div 2
         IN  IF mid * mid <= m THEN IntSqrt(m, mid, hi) ELSE IntSqrt(m, lo, mid - 1)

\* floor(1000 * q) for a fraction 0 <= q < 64, its terms cut down first when
\* the product would not fit.
Thousandths(q) ==
    LET k == q.d \div 30000 + 1
        n == q.n \div k
        d == q.d \div k
    IN  (n * 1000) \div d

\* Math.exp(-k) for a natural number k, in ten-thousandths.
RECURSIVE ExpNegInt(_)
ExpNegInt(k) == IF k = 0 THEN 10000 ELSE (ExpNegInt(k - 1) * 3679) \div 10000

\* The terms i, i + 1, ... of the series of Math.exp(-f / 1000); term is the
\* absolute value of term i - 1, in ten-thousandths.
RECURSIVE ExpNegSeries(_, _, _)
ExpNegSeries(f, i, term) ==
    LET next == (term * f) \div (1000 * i)
    IN  IF next = 0 THEN 0
        ELSE (IF i % 2 = 1 THEN 0 - next ELSE next) + ExpNegSeries(f, i + 1, next)

\* Math.exp(-x / 1000) in ten-thousandths, for x >= 0.
ExpNeg(x) ==
    (ExpNegInt(x \div 1000) * (10000 + ExpNegSeries(x % 1000, 1, 10000))) \div 10000

\* pValueFromZ(z) for a finite z with z * z < 64, from 1000 * z * z.
pValueFromSquare(sq) ==
    LET absZ == IntSqrt(sq * 1000, 0, 8000)
        t == 100000000 \div (10000 + (3276 * absZ) \div 1000)
        h5 == (10614 * t) \div 10000 - 14532
        h4 == (h5 * t) \div 10000 + 14214
        h3 == (h4 * t) \div 10000 - 2845
        h2 == (h3 * t) \div 10000 + 2548
        poly == (h2 * t) \div 10000
        y == 10000 - (poly * ExpNeg(sq \div 2)) \div 10000
    IN  Frac(2 * (10000 - y), 10000)

\* pValueFromZ(z)
pValueFromZ(z) ==
    IF IsNaN(z.square) THEN NaN
    ELSE IF ~IsFinite(z.square) \/ z.square.n \div z.square.d >= 64 THEN Zero
    ELSE pValueFromSquare(Thousandths(z.square))

\* The default of the parameter confidence of confidenceInterval, in
\* hundredths.
DefaultConfidence == 95

\* A variant of zTable without the table: 1.96 at every level.
zTableDefaultOnly(confidence) == Frac(196, 100)

\* zTable[confidence] || 1.96, the confidence level given in hundredths
zTable(confidence) ==
    CASE confidence = 90 -> Frac(1645, 1000)
      [] confidence = 95 -> Frac(196, 100)
      [] confidence = 99 -> Frac(2576, 1000)
      [] OTHER -> Frac(196, 100)

\* The number base + z * se, kept in its three parts; the product with a
\* zero root is the zero, so z is dropped there.
MakeBound(base, z, se) ==
    IF RootIsZero(se) THEN [base |-> base, z |-> Zero, se |-> Root(0, Zero)]
    ELSE [base |-> base, z |-> z, se |-> se]

\* confidenceInterval(estimate, se, confidence)
confidenceInterval(estimate, se, confidence) ==
    LET z == zTable(confidence)
    IN  <<MakeBound(estimate, Neg(z), se), MakeBound(estimate, z, se)>>

\* The number x as a bound of an interval.
Bound(x) == MakeBound(x, Zero, Root(0, Zero))

BoundIsFinite(b) == IsFinite(b.base) /\ RootIsFinite(b.se)

-----------------------------------------------------------------------------
(***************************************************************************)
(* The data model (simulation/types.ts)                                    *)
(***************************************************************************)
VARIABLES
    users,        \* usersRef.current: the sequence of User records
    elapsed,      \* elapsedTimeRef.current, in simulated seconds
    metricType,   \* config.metricType
    cupedResult,  \* the result of the last computeCUPED(users, metricType) call
    rendered,     \* the other estimator results of the last render
    arrays,       \* the arguments and results of a call of the array statistics
    hook,         \* useSimulation: isRunning, intervalRef and the interval timers
    store,        \* the pipeline store (lib/store.ts): logs, claims, ws, wsConnected
    sockets       \* the WebSocket objects the pipeline store has created

\* The variables of the simulation and its estimators.
simVars == <<users, elapsed, metricType, cupedResult, rendered>>

\* The variables the simulation steps and the renders do not touch.
otherVars == <<arrays, hook, store, sockets>>

vars == <<users, elapsed, metricType, cupedResult, rendered, arrays, hook, store, sockets>>

\* The value of a variable that a specification does not use.
Unused == "unused"

Groups == {"control", "treatment"}
Periods == {"pre", "post"}
MetricTypes == {"ctr", "conversion", "revenue", "duration"}

\* METRIC_CONFIGS[metricType].isContinuous
isContinuous(kind) == kind \in {"revenue", "duration"}

\* A user as generateUsers creates it: a group and eight counters at zero.
\* The id is the user's position in the list; baselineCTR and
\* trafficIntensity only weigh the random draws and are left out.
NewUser(g) ==
    [group |-> g,
     preClicks |-> 0, preImpressions |-> 0,
     postClicks |-> 0, postImpressions |-> 0,
     preMetricSum |-> 0, postMetricSum |-> 0,
     preMetricCount |-> 0, postMetricCount |-> 0]

\* The lists generateUsers can return for totalUsers = n.
RECURSIVE generateUsers(_)
generateUsers(n) ==
    IF n = 0 THEN {<<>>}
    ELSE {Append(us, NewUser(g)) : us \in generateUsers(n - 1), g \in Groups}

\* All impressions recorded so far (the model bounds them by MaxEvents).
RECURSIVE TotalImpressions(_)
TotalImpressions(us) ==
    IF us = <<>> THEN 0
    ELSE Head(us).preImpressions + Head(us).postImpressions
         + TotalImpressions(Tail(us))

-----------------------------------------------------------------------------
(***************************************************************************)
(* Event generation and application (simulation/eventEmitter.ts)           *)
(***************************************************************************)
\* generateMetricValue: the {click, metricValue} pairs one event can carry.
generateMetricValue(kind) ==
    IF kind \in {"ctr", "conversion"}
    THEN {[click |-> c, metricValue |-> c] : c \in {0, 1}}
    ELSE IF kind = "revenue"
    THEN {[click |-> 0, metricValue |-> 0]}
         \cup {[click |-> 1, metricValue |-> v] : v \in 1..MaxMetricValue}
    ELSE {[click |-> 1, metricValue |-> v] : v \in 1..MaxMetricValue}

\* A variant of generateEvent for which the launch instant itself still
\* belongs to the pre period.
generateEventLaunchInPre(i, elapsedSeconds, kind) ==
    {[userId |-> i,
      period |-> IF elapsedSeconds <= LaunchTime THEN "pre" ELSE "post",
      impression |-> 1,
      click |-> mv.click,
      metricValue |-> mv.metricValue] : mv \in generateMetricValue(kind)}

\* generateEvent: the events it can return for user number i at elapsedSeconds.
generateEvent(i, elapsedSeconds, kind) ==
    {[userId |-> i,
      period |-> IF elapsedSeconds < LaunchTime THEN "pre" ELSE "post",
      impression |-> 1,
      click |-> mv.click,
      metricValue |-> mv.metricValue] : mv \in generateMetricValue(kind)}

\* A variant of updateUserMetrics that assigns the clicks instead of adding.
updateUserMetricsAssign(user, event) ==
    IF event.period = "pre"
    THEN [user EXCEPT !.preImpressions = @ + 1,
                      !.preClicks = event.click,
                      !.preMetricSum = @ + event.metricValue,
                      !.preMetricCount = @ + 1]
    ELSE [user EXCEPT !.postImpressions = @ + 1,
                      !.postClicks = event.click,
                      !.postMetricSum = @ + event.metricValue,
                      !.postMetricCount = @ + 1]

\* A variant of updateUserMetrics that counts the impression of every event
\* in the post period as well.
updateUserMetricsCountingTwice(user, event) ==
    IF event.period = "pre"
    THEN [user EXCEPT !.preImpressions = @ + 1,
                      !.preClicks = @ + event.click,
                      !.preMetricSum = @ + event.metricValue,
                      !.preMetricCount = @ + 1,
                      !.postImpressions = @ + 1]
    ELSE [user EXCEPT !.postImpressions = @ + 1,
                      !.postClicks = @ + event.click,
                      !.postMetricSum = @ + event.metricValue,
                      !.postMetricCount = @ + 1]

\* updateUserMetrics(user, event)
updateUserMetrics(user, event) ==
    IF event.period = "pre"
    THEN [user EXCEPT !.preImpressions = @ + 1,
                      !.preClicks = @ + event.click,
                      !.preMetricSum = @ + event.metricValue,
                      !.preMetricCount = @ + 1]
    ELSE [user EXCEPT !.postImpressions = @ + 1,
                      !.postClicks = @ + event.click,
                      !.postMetricSum = @ + event.metricValue,
                      !.postMetricCount = @ + 1]

\* generateEventBatch: the user lists that batchSize events, each drawn for a
\* user selectRandomUser picks, can leave behind.
RECURSIVE generateEventBatch(_, _, _, _)
generateEventBatch(us, elapsedSeconds, kind, batchSize) ==
    IF batchSize = 0 THEN {us}
    ELSE UNION {
           generateEventBatch([us EXCEPT ![i] = updateUserMetrics(us[i], ev)],
                              elapsedSeconds, kind, batchSize - 1) :
             <<i, ev>> \in UNION {{<<j, e>> : e \in generateEvent(j, elapsedSeconds, kind)} :
                                  j \in 1..Len(us)}}

\* Math.round(a * (p / d)) for integers a, p >= 0 and d > 0: halves round up.
RoundRatio(a, p, d) == (2 * a * p + d) \div (2 * d)

\* randomBinomial(count, rate): a number of successes among count trials.
randomBinomial(count) == 0..count

\* A variant of updateBulkStats that raises the metric count by the clicks
\* instead of the events.
updateBulkStatsCountingClicks(user, count, period, kind) ==
    IF count <= 0 THEN {user}
    ELSE {IF period = "pre"
          THEN [user EXCEPT !.preImpressions = @ + count,
                            !.preClicks = @ + clicks,
                            !.preMetricSum = @ + clicks,
                            !.preMetricCount = @ + clicks]
          ELSE [user EXCEPT !.postImpressions = @ + count,
                            !.postClicks = @ + clicks,
                            !.postMetricSum = @ + clicks,
                            !.postMetricCount = @ + clicks] :
            clicks \in randomBinomial(count)}

\* updateBulkStats(count, period) of fastForwardSimulation, for one user: the
\* records the draws can leave behind.
updateBulkStats(user, count, period, kind) ==
    IF count <= 0 THEN {user}
    ELSE IF kind \in {"ctr", "conversion"}
    THEN {IF period = "pre"
          THEN [user EXCEPT !.preImpressions = @ + count,
                            !.preClicks = @ + clicks,
                            !.preMetricSum = @ + clicks,
                            !.preMetricCount = @ + count]
          ELSE [user EXCEPT !.postImpressions = @ + count,
                            !.postClicks = @ + clicks,
                            !.postMetricSum = @ + clicks,
                            !.postMetricCount = @ + count] :
            clicks \in randomBinomial(count)}
    ELSE IF kind = "revenue"
    THEN UNION {
           {LET paid == IF conversions > 0
                        THEN IF period = "pre"
                             THEN [user EXCEPT !.preClicks = @ + conversions,
                                               !.preMetricSum = @ + totalRev]
                             ELSE [user EXCEPT !.postClicks = @ + conversions,
                                               !.postMetricSum = @ + totalRev]
                        ELSE user
            IN  IF period = "pre"
                THEN [paid EXCEPT !.preImpressions = @ + count,
                                  !.preMetricCount = @ + count]
                ELSE [paid EXCEPT !.postImpressions = @ + count,
                                  !.postMetricCount = @ + count] :
              totalRev \in 0..(conversions * MaxMetricValue)} :
           conversions \in randomBinomial(count)}
    ELSE {IF period = "pre"
          THEN [user EXCEPT !.preImpressions = @ + count,
                            !.preClicks = @ + count,
                            !.preMetricSum = @ + totalDur,
                            !.preMetricCount = @ + count]
          ELSE [user EXCEPT !.postImpressions = @ + count,
                            !.postClicks = @ + count,
                            !.postMetricSum = @ + totalDur,
                            !.postMetricCount = @ + count] :
            totalDur \in 0..(count * MaxMetricValue)}

\* The body of fastForwardSimulation's users.forEach for one user who drew
\* actualEvents events: the split at the launch, then both bulk updates.
fastForwardUser(user, kind, durationSeconds, currentElapsed, actualEvents) ==
    IF actualEvents <= 0 THEN {user}
    ELSE LET endElapsed == currentElapsed + durationSeconds
             preDuration == IF endElapsed <= LaunchTime THEN durationSeconds
                            ELSE IF currentElapsed >= LaunchTime THEN 0
                            ELSE LaunchTime - currentElapsed
             preEvents == RoundRatio(actualEvents, preDuration, durationSeconds)
             postEvents == actualEvents - preEvents
         IN  UNION {updateBulkStats(u, postEvents, "post", kind) :
                      u \in updateBulkStats(user, preEvents, "pre", kind)}

\* fastForwardSimulation(users, config, durationSeconds, currentElapsed): the
\* user lists one call can leave behind when it adds at most budget events.
RECURSIVE fastForwardSimulation(_, _, _, _, _)
fastForwardSimulation(us, kind, durationSeconds, currentElapsed, budget) ==
    IF us = <<>> THEN {<<>>}
    ELSE UNION {
           UNION {{<<u>> \o rest :
                     rest \in fastForwardSimulation(Tail(us), kind, durationSeconds,
                                                    currentElapsed, budget - actualEvents)} :
                  u \in fastForwardUser(Head(us), kind, durationSeconds,
                                        currentElapsed, actualEvents)} :
           actualEvents \in 0..budget}

-----------------------------------------------------------------------------
(***************************************************************************)
(* Aggregation (stats/naiveAB.ts)                                          *)
(***************************************************************************)
\* The GroupMetrics record every summary starts as.
EmptyGroupMetrics ==
    [impressions |-> 0, clicks |-> 0, ctr |-> Zero,
     metricSum |-> 0, metricCount |-> 0, metricMean |-> Zero]

\* A variant of the first loop that routes every user to the control group.
RECURSIVE accumulateUsersOneGroup(_, _)
accumulateUsersOneGroup(us, metrics) ==
    IF us = <<>> THEN metrics
    ELSE LET user == Head(us)
             group == metrics["control"]
             added ==
               [pre |-> [group.pre EXCEPT
                           !.impressions = @ + user.preImpressions,
                           !.clicks = @ + user.preClicks,
                           !.metricSum = @ + user.preMetricSum,
                           !.metricCount = @ + user.preMetricCount],
                post |-> [group.post EXCEPT
                           !.impressions = @ + user.postImpressions,
                           !.clicks = @ + user.postClicks,
                           !.metricSum = @ + user.postMetricSum,
                           !.metricCount = @ + user.postMetricCount]]
         IN  accumulateUsersOneGroup(Tail(us), [metrics EXCEPT !["control"] = added])

\* The first loop of computeAggregatedMetrics: every user's counters are
\* added to the two summaries of the user's group.
RECURSIVE accumulateUsers(_, _)
accumulateUsers(us, metrics) ==
    IF us = <<>> THEN metrics
    ELSE LET user == Head(us)
             group == metrics[user.group]
             added ==
               [pre |-> [group.pre EXCEPT
                           !.impressions = @ + user.preImpressions,
                           !.clicks = @ + user.preClicks,
                           !.metricSum = @ + user.preMetricSum,
                           !.metricCount = @ + user.preMetricCount],
                post |-> [group.post EXCEPT
                           !.impressions = @ + user.postImpressions,
                           !.clicks = @ + user.postClicks,
                           !.metricSum = @ + user.postMetricSum,
                           !.metricCount = @ + user.postMetricCount]]
         IN  accumulateUsers(Tail(us), [metrics EXCEPT ![user.group] = added])

\* A variant of the second loop that divides without looking at the denominator.
deriveRatesUnguarded(m) ==
    [m EXCEPT
       !.ctr = Div(Num(m.clicks), Num(m.impressions)),
       !.metricMean = Div(Num(m.metricSum), Num(m.metricCount))]

\* The second loop of computeAggregatedMetrics: the two rates of a summary.
deriveRates(m) ==
    [m EXCEPT
       !.ctr = IF m.impressions > 0 THEN Div(Num(m.clicks), Num(m.impressions))
               ELSE Zero,
       !.metricMean = IF m.metricCount > 0
                      THEN Div(Num(m.metricSum), Num(m.metricCount))
                      ELSE Zero]

\* computeAggregatedMetrics(users)
computeAggregatedMetrics(us) ==
    LET sums == accumulateUsers(us,
                  [g \in Groups |-> [p \in Periods |-> EmptyGroupMetrics]])
    IN  [g \in Groups |-> [p \in Periods |-> deriveRates(sums[g][p])]]

\* users.filter(u => u.group === group)
filterGroup(us, g) == SelectSeq(us, LAMBDA u : u.group = g)

\* The per-user rate getUserMetricValues maps a user to (proportion kinds).
userRate(u, period) ==
    LET impressions == IF period = "pre" THEN u.preImpressions ELSE u.postImpressions
        clicks == IF period = "pre" THEN u.preClicks ELSE u.postClicks
    IN  IF impressions > 0 THEN Div(Num(clicks), Num(impressions)) ELSE Zero

\* The per-user mean getUserMetricValues maps a user to (continuous kinds).
userMean(u, period) ==
    LET sum == IF period = "pre" THEN u.preMetricSum ELSE u.postMetricSum
        count == IF period = "pre" THEN u.preMetricCount ELSE u.postMetricCount
    IN  IF count > 0 THEN Div(Num(sum), Num(count)) ELSE Zero

\* A variant of the proportion filter that keeps only positive values.
keepAllDropsZero(vals) == SelectSeq(vals, LAMBDA v : Greater(v, Zero))

\* .filter(v => v > 0 || true): every value passes.
keepAll(vals) == SelectSeq(vals, LAMBDA v : Greater(v, Zero) \/ TRUE)

\* .filter(v => v > 0)
keepPositive(vals) == SelectSeq(vals, LAMBDA v : Greater(v, Zero))

\* getUserMetricValues(users, period, group, metricType)
getUserMetricValues(us, period, g, kind) ==
    LET filteredUsers == filterGroup(us, g)
    IN  IF kind = "ctr" \/ kind = "conversion"
        THEN keepAll([i \in 1..Len(filteredUsers) |-> userRate(filteredUsers[i], period)])
        ELSE keepPositive([i \in 1..Len(filteredUsers) |-> userMean(filteredUsers[i], period)])

-----------------------------------------------------------------------------
(***************************************************************************)
(* CUPED (stats/cuped.ts)                                                  *)
(***************************************************************************)
\* A variant of the filter that asks for data in one of the two periods.
hasEitherPeriod(u, kind) ==
    IF isContinuous(kind)
    THEN u.preMetricCount > 0 \/ u.postMetricCount > 0
    ELSE u.preImpressions > 0 \/ u.postImpressions > 0

\* The filter of extractUserMetrics: the user has data in both periods.
hasBothPeriods(u, kind) ==
    IF isContinuous(kind)
    THEN u.preMetricCount > 0 /\ u.postMetricCount > 0
    ELSE u.preImpressions > 0 /\ u.postImpressions > 0

\* The record extractUserMetrics maps user number i to.
toUserMetrics(us, i, kind) ==
    LET u == us[i]
    IN  IF isContinuous(kind)
        THEN [userId |-> i, group |-> u.group,
              preMetric |-> Div(Num(u.preMetricSum), Num(u.preMetricCount)),
              postMetric |-> Div(Num(u.postMetricSum), Num(u.postMetricCount))]
        ELSE [userId |-> i, group |-> u.group,
              preMetric |-> Div(Num(u.preClicks), Num(u.preImpressions)),
              postMetric |-> Div(Num(u.postClicks), Num(u.postImpressions))]

\* extractUserMetrics(users, metricType)
extractUserMetrics(us, kind) ==
    LET kept == SelectSeq([i \in 1..Len(us) |-> i],
                          LAMBDA i : hasBothPeriods(us[i], kind))
    IN  [k \in 1..Len(kept) |-> toUserMetrics(us, kept[k], kind)]

\* The fewest qualifying users computeCUPED computes an estimate for.
MinCupedUsers == 10

\* A variant of isSignificant with the cutoff 0.01.
isSignificantAtOnePercent(pValue) == Less(pValue, Frac(1, 100))

\* The significance cutoff of the estimators: pValue < 0.05.
isSignificant(pValue) == Less(pValue, Frac(5, 100))

\* The result computeCUPED returns below MinCupedUsers qualifying users.
NeutralCuped ==
    [estimate |-> Zero,
     standardError |-> Root(0, Zero),
     confidenceInterval |-> <<Bound(Zero), Bound(Zero)>>,
     pValue |-> One,
     significant |-> FALSE,
     theta |-> Zero,
     varianceReduction |-> Zero,
     varianceBefore |-> Zero,
     varianceAfter |-> Zero]

\* userMetrics.filter(u => u.group === g)
armOf(userMetrics, g) == SelectSeq(userMetrics, LAMBDA u : u.group = g)

preOf(userMetrics) == [i \in 1..Len(userMetrics) |-> userMetrics[i].preMetric]
postOf(userMetrics) == [i \in 1..Len(userMetrics) |-> userMetrics[i].postMetric]

\* As cupedTheta, dividing whatever the variance is.
cupedThetaUnguarded(userMetrics) ==
    Div(covariance(postOf(userMetrics), preOf(userMetrics)),
        variance(preOf(userMetrics)))

\* theta = varX > 0 ? covYX / varX : 0
cupedTheta(userMetrics) ==
    LET covYX == covariance(postOf(userMetrics), preOf(userMetrics))
        varX == variance(preOf(userMetrics))
    IN  IF Greater(varX, Zero) THEN Div(covYX, varX) ELSE Zero

\* arm.map(u => u.postMetric - theta * (u.preMetric - meanX))
cupedAdjusted(arm, theta, meanX) ==
    [i \in 1..Len(arm) |->
       Minus(arm[i].postMetric, Times(theta, Minus(arm[i].preMetric, meanX)))]

\* The standard error: the pooled variance of the two adjusted samples,
\* spread over the two arm sizes.
cupedSE(controlAdjusted, treatmentAdjusted) ==
    LET nc == Len(controlAdjusted)
        nt == Len(treatmentAdjusted)
        pooledVariance ==
          Div(Plus(Times(variance(controlAdjusted), Num(nc - 1)),
                   Times(variance(treatmentAdjusted), Num(nt - 1))),
              Num(nc + nt - 2))
    IN  Sqrt(Times(pooledVariance, Plus(Div(One, Num(nc)), Div(One, Num(nt)))))

\* The part of computeCUPED after the small-sample guard.
cupedEstimate(userMetrics) ==
    LET control == armOf(userMetrics, "control")
        treatment == armOf(userMetrics, "treatment")
        theta == cupedTheta(userMetrics)
        meanX == mean(preOf(userMetrics))
        controlAdjusted == cupedAdjusted(control, theta, meanX)
        treatmentAdjusted == cupedAdjusted(treatment, theta, meanX)
        estimate == Minus(mean(treatmentAdjusted), mean(controlAdjusted))
        se == cupedSE(controlAdjusted, treatmentAdjusted)
        varianceBefore == variance(postOf(control) \o postOf(treatment))
        varianceAfter == variance(controlAdjusted \o treatmentAdjusted)
        pValue == pValueFromZ(zScore(estimate, se))
    IN  [estimate |-> estimate,
         standardError |-> se,
         confidenceInterval |-> confidenceInterval(estimate, se, DefaultConfidence),
         pValue |-> pValue,
         significant |-> isSignificant(pValue),
         theta |-> theta,
         varianceReduction |-> IF Greater(varianceBefore, Zero)
                               THEN Minus(One, Div(varianceAfter, varianceBefore))
                               ELSE Zero,
         varianceBefore |-> varianceBefore,
         varianceAfter |-> varianceAfter]

\* As tooFewUsers, ten users being too few as well.
tooFewUsersInclusive(n) == n <= MinCupedUsers

\* The small-sample guard of computeCUPED.
tooFewUsers(n) == n < MinCupedUsers

\* computeCUPED(users, metricType)
computeCUPED(us, kind) ==
    LET userMetrics == extractUserMetrics(us, kind)
    IN  IF tooFewUsers(Len(userMetrics)) THEN NeutralCuped
        ELSE cupedEstimate(userMetrics)

-----------------------------------------------------------------------------
(***************************************************************************)
(* Difference in differences (stats/did.ts)                                *)
(***************************************************************************)
\* A variant of getMetricValue that reads the click-through rate for every
\* kind of metric.
getMetricValueOfClicks(group, kind) == group.ctr

\* getMetricValue(group, metricType)
getMetricValue(group, kind) ==
    IF isContinuous(kind) THEN group.metricMean ELSE group.ctr

\* n || 1 for a count n
OrOne(n) == IF n = 0 THEN 1 ELSE n

\* se * se for se = Math.sqrt(q)
RootSquared(r) == r.square

\* The standard error of computeDiD for a continuous kind.
didSEContinuous(metrics, ctrlPre, ctrlPost, treatPre, treatPost) ==
    LET n1Pre == OrOne(metrics.control.pre.metricCount)
        n1Post == OrOne(metrics.control.post.metricCount)
        n2Pre == OrOne(metrics.treatment.pre.metricCount)
        n2Post == OrOne(metrics.treatment.post.metricCount)
        varCtrl == Times(Div(Plus(ctrlPre, ctrlPost), Num(2)), Frac(1, 2))
        varTreat == Times(Div(Plus(treatPre, treatPost), Num(2)), Frac(1, 2))
        se1 == Sqrt(Times(varCtrl, Plus(Div(One, Num(n1Pre)), Div(One, Num(n1Post)))))
        se2 == Sqrt(Times(varTreat, Plus(Div(One, Num(n2Pre)), Div(One, Num(n2Post)))))
    IN  Sqrt(Plus(RootSquared(se1), RootSquared(se2)))

\* The standard error of computeDiD for a proportion kind.
didSEProportion(metrics) ==
    LET n1 == metrics.control.pre.impressions + metrics.control.post.impressions
        n2 == metrics.treatment.pre.impressions + metrics.treatment.post.impressions
        p1 == Div(Num(metrics.control.pre.clicks + metrics.control.post.clicks),
                  Num(OrOne(n1)))
        p2 == Div(Num(metrics.treatment.pre.clicks + metrics.treatment.post.clicks),
                  Num(OrOne(n2)))
        se1 == Sqrt(Times(Times(p1, Minus(One, p1)),
                          Plus(Div(One, Num(OrOne(metrics.control.pre.impressions))),
                               Div(One, Num(OrOne(metrics.control.post.impressions))))))
        se2 == Sqrt(Times(Times(p2, Minus(One, p2)),
                          Plus(Div(One, Num(OrOne(metrics.treatment.pre.impressions))),
                               Div(One, Num(OrOne(metrics.treatment.post.impressions))))))
    IN  Sqrt(Plus(RootSquared(se1), RootSquared(se2)))

\* The first part of computeDiD: the four values, the change of each group
\* and the estimate.
didDeltas(metrics, kind) ==
    LET treatPre == getMetricValue(metrics.treatment.pre, kind)
        treatPost == getMetricValue(metrics.treatment.post, kind)
        ctrlPre == getMetricValue(metrics.control.pre, kind)
        ctrlPost == getMetricValue(metrics.control.post, kind)
        treatDelta == Minus(treatPost, treatPre)
        ctrlDelta == Minus(ctrlPost, ctrlPre)
    IN  [estimate |-> Minus(treatDelta, ctrlDelta),
         treatPre |-> treatPre,
         treatPost |-> treatPost,
         ctrlPre |-> ctrlPre,
         ctrlPost |-> ctrlPost,
         treatDelta |-> treatDelta,
         ctrlDelta |-> ctrlDelta]

\* computeDiD(metrics, metricType)
computeDiD(metrics, kind) ==
    LET d == didDeltas(metrics, kind)
        se == IF isContinuous(kind)
              THEN didSEContinuous(metrics, d.ctrlPre, d.ctrlPost, d.treatPre, d.treatPost)
              ELSE didSEProportion(metrics)
        pValue == pValueFromZ(zScore(d.estimate, se))
    IN  [estimate |-> d.estimate,
         standardError |-> se,
         confidenceInterval |-> confidenceInterval(d.estimate, se, DefaultConfidence),
         pValue |-> pValue,
         significant |-> isSignificant(pValue),
         treatPre |-> d.treatPre,
         treatPost |-> d.treatPost,
         ctrlPre |-> d.ctrlPre,
         ctrlPost |-> d.ctrlPost,
         treatDelta |-> d.treatDelta,
         ctrlDelta |-> d.ctrlDelta]

\* A variant of didRegressionInterpretation whose interaction term adds the
\* control pre-period value instead of subtracting it.
didRegressionInterpretationAdding(metrics, kind) ==
    LET ctrlPre == getMetricValue(metrics.control.pre, kind)
        ctrlPost == getMetricValue(metrics.control.post, kind)
        treatPre == getMetricValue(metrics.treatment.pre, kind)
        treatPost == getMetricValue(metrics.treatment.post, kind)
    IN  [intercept |-> ctrlPre,
         treatCoef |-> Minus(treatPre, ctrlPre),
         postCoef |-> Minus(ctrlPost, ctrlPre),
         interactionCoef |-> Minus(Minus(treatPost, treatPre), Plus(ctrlPost, ctrlPre))]

\* A variant of didRegressionInterpretation whose post coefficient is taken
\* from the treatment group.
didRegressionInterpretationOfTreatment(metrics, kind) ==
    LET ctrlPre == getMetricValue(metrics.control.pre, kind)
        ctrlPost == getMetricValue(metrics.control.post, kind)
        treatPre == getMetricValue(metrics.treatment.pre, kind)
        treatPost == getMetricValue(metrics.treatment.post, kind)
    IN  [intercept |-> ctrlPre,
         treatCoef |-> Minus(treatPre, ctrlPre),
         postCoef |-> Minus(treatPost, treatPre),
         interactionCoef |-> Minus(Minus(treatPost, treatPre), Minus(ctrlPost, ctrlPre))]

\* didRegressionInterpretation(metrics, metricType)
didRegressionInterpretation(metrics, kind) ==
    LET ctrlPre == getMetricValue(metrics.control.pre, kind)
        ctrlPost == getMetricValue(metrics.control.post, kind)
        treatPre == getMetricValue(metrics.treatment.pre, kind)
        treatPost == getMetricValue(metrics.treatment.post, kind)
    IN  [intercept |-> ctrlPre,
         treatCoef |-> Minus(treatPre, ctrlPre),
         postCoef |-> Minus(ctrlPost, ctrlPre),
         interactionCoef |-> Minus(Minus(treatPost, treatPre), Minus(ctrlPost, ctrlPre))]

-----------------------------------------------------------------------------
(***************************************************************************)
(* The naive estimator (stats/naiveAB.ts) and the helpers of stats/utils   *)
(* it calls                                                                *)
(***************************************************************************)
\* Math.abs(x) for a number x
AbsNum(x) == IF x.n < 0 THEN Neg(x) ELSE x

\* proportionSE(p, n)
proportionSE(p, n) ==
    IF n = 0 THEN Root(0, Zero)
    ELSE Sqrt(Div(Times(p, Minus(One, p)), Num(n)))

\* A variant of diffProportionSE that leaves the second proportion out.
diffProportionSEOfFirst(p1, n1, p2, n2) == proportionSE(p1, n1)

\* diffProportionSE(p1, n1, p2, n2)
diffProportionSE(p1, n1, p2, n2) ==
    Sqrt(Plus(RootSquared(proportionSE(p1, n1)), RootSquared(proportionSE(p2, n2))))

\* diffMeanSE(mean1, var1, n1, mean2, var2, n2): sqrt(var1/n1 + var2/n2)
diffMeanSE(mean1, var1, n1, mean2, var2, n2) ==
    Sqrt(Plus(Div(var1, Num(n1)), Div(var2, Num(n2))))

\* welchDF(var1, n1, var2, n2): the Welch-Satterthwaite degrees of freedom
welchDF(var1, n1, var2, n2) ==
    LET a == Div(var1, Num(n1))
        b == Div(var2, Num(n2))
    IN  Div(Times(Plus(a, b), Plus(a, b)),
            Plus(Div(Times(a, a), Num(n1 - 1)), Div(Times(b, b), Num(n2 - 1))))

\* tScore(value, se): the statistic value / se, 0 for se = 0
tScore(value, se) == zScore(value, se)

\* pValueFromT(t, df): the two-sided p-value of t, by the normal
\* approximation whatever df is
pValueFromT(t, df) == pValueFromZ(t)

\* confidenceIntervalT(estimate, se, df): estimate -/+ the 95% multiple of se
confidenceIntervalT(estimate, se, df) ==
    confidenceInterval(estimate, se, DefaultConfidence)

\* The continuous branch of naiveABTest, user records supplied.
naiveContinuous(ctrl, treat, kind, us) ==
    LET ctrlMean == ctrl.metricMean
        treatMean == treat.metricMean
        estimate == Minus(treatMean, ctrlMean)
        ctrlVar == variance(getUserMetricValues(us, "post", "control", kind))
        treatVar == variance(getUserMetricValues(us, "post", "treatment", kind))
        se == diffMeanSE(ctrlMean, ctrlVar, ctrl.metricCount,
                         treatMean, treatVar, treat.metricCount)
        df == welchDF(ctrlVar, ctrl.metricCount, treatVar, treat.metricCount)
        pValue == pValueFromT(tScore(estimate, se), df)
    IN  [estimate |-> estimate,
         standardError |-> se,
         confidenceInterval |-> confidenceIntervalT(estimate, se, df),
         pValue |-> pValue,
         significant |-> isSignificant(pValue)]

\* The proportion branch of naiveABTest.
naiveProportion(ctrl, treat) ==
    LET ctrControl == ctrl.ctr
        ctrTreatment == treat.ctr
        estimate == Minus(ctrTreatment, ctrControl)
        se == diffProportionSE(ctrControl, ctrl.impressions,
                               ctrTreatment, treat.impressions)
        pValue == pValueFromZ(zScore(estimate, se))
    IN  [estimate |-> estimate,
         standardError |-> se,
         confidenceInterval |-> confidenceInterval(estimate, se, DefaultConfidence),
         pValue |-> pValue,
         significant |-> isSignificant(pValue)]

\* A variant of naiveABTest that compares the pre-period summaries.
naiveABTestOfPre(metrics, kind, us) ==
    IF isContinuous(kind)
    THEN naiveContinuous(metrics.control.pre, metrics.treatment.pre, kind, us)
    ELSE naiveProportion(metrics.control.pre, metrics.treatment.pre)

\* naiveABTest(metrics, metricType, users)
naiveABTest(metrics, kind, us) ==
    IF isContinuous(kind)
    THEN naiveContinuous(metrics.control.post, metrics.treatment.post, kind, us)
    ELSE naiveProportion(metrics.control.post, metrics.treatment.post)

\* se / x for a root se and a number x
DivRoot(se, x) ==
    IF IsNaN(x) THEN Root(0, NaN)
    ELSE Root(se.sign * Sign(x.n), Div(se.square, Times(x, x)))

\* The part of computeRelativeLift after the guard.
liftOf(metrics, kind, us, baseValue, treatValue) ==
    LET lift == Div(Minus(treatValue, baseValue), baseValue)
        abResult == naiveABTest(metrics, kind, us)
        seLift == DivRoot(abResult.standardError, baseValue)
    IN  [lift |-> lift,
         liftCI |-> confidenceInterval(lift, seLift, DefaultConfidence)]

\* A variant of computeRelativeLift without the guard.
computeRelativeLiftUnguarded(metrics, kind, us) ==
    liftOf(metrics, kind, us,
           getMetricValue(metrics.control.post, kind),
           getMetricValue(metrics.treatment.post, kind))

\* computeRelativeLift(metrics, metricType, users)
computeRelativeLift(metrics, kind, us) ==
    LET ctrl == metrics.control.post
        treat == metrics.treatment.post
        baseValue == IF isContinuous(kind) THEN ctrl.metricMean ELSE ctrl.ctr
        treatValue == IF isContinuous(kind) THEN treat.metricMean ELSE treat.ctr
    IN  IF IsZero(baseValue)
        THEN [lift |-> Zero, liftCI |-> <<Bound(Zero), Bound(Zero)>>]
        ELSE liftOf(metrics, kind, us, baseValue, treatValue)

\* A variant of imbalanceCutoff with the cutoff of the main test.
imbalanceCutoffAtFivePercent(pValue) == Less(pValue, Frac(5, 100))

\* The cutoff of checkBaselineImbalance: pValue < 0.1.
imbalanceCutoff(pValue) == Less(pValue, Frac(1, 10))

\* checkBaselineImbalance(metrics, metricType)
checkBaselineImbalance(metrics, kind) ==
    LET ctrl == metrics.control.pre
        treat == metrics.treatment.pre
        preDifference == IF isContinuous(kind)
                         THEN Minus(treat.metricMean, ctrl.metricMean)
                         ELSE Minus(treat.ctr, ctrl.ctr)
        se == IF isContinuous(kind)
              THEN diffMeanSE(ctrl.metricMean, Times(ctrl.metricMean, Frac(1, 2)),
                              ctrl.metricCount,
                              treat.metricMean, Times(treat.metricMean, Frac(1, 2)),
                              treat.metricCount)
              ELSE diffProportionSE(ctrl.ctr, ctrl.impressions,
                                    treat.ctr, treat.impressions)
        pValue == pValueFromZ(zScore(preDifference, se))
    IN  [imbalanceDetected |-> imbalanceCutoff(pValue),
         preDifference |-> preDifference,
         pValue |-> pValue]

\* The threshold of checkParallelTrends: 20% of the control pre-period value
\* for continuous kinds, 0.02 for proportions.
trendThreshold(ctrlPre, kind) ==
    IF isContinuous(kind) THEN Times(ctrlPre, Frac(2, 10)) ELSE Frac(2, 100)

\* Math.abs(preDifference) < threshold
withinThreshold(preDifference, threshold) == Less(AbsNum(preDifference), threshold)

\* checkParallelTrends(metrics, metricType); a null warning is "null".
checkParallelTrends(metrics, kind) ==
    LET treatPre == getMetricValue(metrics.treatment.pre, kind)
        ctrlPre == getMetricValue(metrics.control.pre, kind)
        preDifference == Minus(treatPre, ctrlPre)
        isParallel == withinThreshold(preDifference, trendThreshold(ctrlPre, kind))
    IN  [preDifference |-> preDifference,
         isParallel |-> isParallel,
         warning |-> IF isParallel THEN "null"
                     ELSE IF isContinuous(kind)
                     THEN "Pre-period metric differs between groups. Parallel trends assumption may be violated."
                     ELSE "Pre-period CTR differs between groups. Parallel trends assumption may be violated."]

\* Math.exp(-q) for a number q >= 0, to four decimal places; below
\* exp(-20) the places are all 0.
ExpNegOf(q) ==
    IF IsNaN(q) THEN NaN
    ELSE IF ~IsFinite(q) \/ q.n \div q.d >= 20 THEN Zero
    ELSE Frac(ExpNeg(Thousandths(q)), 10000)

\* A variant of srmChiSquared with the control term only.
srmChiSquaredOfControl(nControl, nTreatment) ==
    LET total == nControl + nTreatment
        expected == Div(Num(total), Num(2))
        dc == Minus(Num(nControl), expected)
    IN  Div(Times(dc, dc), expected)

\* The chi-squared statistic of srmCheck for a total > 0.
srmChiSquared(nControl, nTreatment) ==
    LET total == nControl + nTreatment
        expected == Div(Num(total), Num(2))
        dc == Minus(Num(nControl), expected)
        dt == Minus(Num(nTreatment), expected)
    IN  Plus(Div(Times(dc, dc), expected), Div(Times(dt, dt), expected))

\* srmCheck(nControl, nTreatment)
srmCheck(nControl, nTreatment) ==
    IF nControl + nTreatment = 0 THEN One
    ELSE ExpNegOf(Div(srmChiSquared(nControl, nTreatment), Num(2)))

\* ComparePanel: const srmOk = srmPValue > 0.01
srmOk(srmPValue) == Greater(srmPValue, Frac(1, 100))

-----------------------------------------------------------------------------
(***************************************************************************)
(* The simulation: the operations of hooks/useSimulation that change the   *)
(* user counters                                                           *)
(***************************************************************************)
\* No estimator result has been computed yet.
NotComputed == [estimate |-> "none"]

Init ==
    /\ users \in UNION {generateUsers(n) : n \in 0..MaxUsers}
    /\ elapsed = 0
    /\ metricType \in MetricTypes
    /\ cupedResult = NotComputed
    /\ rendered = NotComputed
    /\ arrays = Unused /\ hook = Unused /\ store = Unused /\ sockets = Unused

\* One firing of the interval callback start() installs: the clock advances
\* and generateEventBatch applies eventsPerTick >= 1 events.
Tick ==
    /\ Len(users) > 0
    /\ \E simDelta \in 0..1, eventsPerTick \in 1..MaxBatch :
         /\ elapsed + simDelta <= MaxElapsed
         /\ TotalImpressions(users) + eventsPerTick <= MaxEvents
         /\ elapsed' = elapsed + simDelta
         /\ users' \in generateEventBatch(users, elapsed + simDelta, metricType,
                                          eventsPerTick)
    /\ UNCHANGED <<metricType, cupedResult, rendered>>
    /\ UNCHANGED otherVars

\* One iteration of the loop of fastForward(days): a call of
\* fastForwardSimulation for stepDuration seconds.
FastForwardStep ==
    /\ \E stepDuration \in 1..MaxElapsed :
         /\ elapsed + stepDuration <= MaxElapsed
         /\ users' \in fastForwardSimulation(users, metricType, stepDuration, elapsed,
                                             MaxEvents - TotalImpressions(users))
         /\ elapsed' = elapsed + stepDuration
    /\ UNCHANGED <<metricType, cupedResult, rendered>>
    /\ UNCHANGED otherVars

\* updateConfig({metricType}): the metric kind changes, the users are kept.
UpdateConfig ==
    /\ \E kind \in MetricTypes \ {metricType} : metricType' = kind
    /\ UNCHANGED <<users, elapsed, cupedResult, rendered>>
    /\ UNCHANGED otherVars

Next == Tick \/ FastForwardStep \/ UpdateConfig

Spec == Init /\ [][Next]_vars

\* The runs in which the configuration is left alone: ticks and fast-forward
\* steps from fresh users under one metric kind and one launch time.
NextEvents == Tick \/ FastForwardStep

SpecEvents == Init /\ [][NextEvents]_vars

-----------------------------------------------------------------------------
(***************************************************************************)
(* computeCUPED as a function of the user list: the lists of up to         *)
(* MaxCupedUsers users whose counters are one of six patterns.  The        *)
(* result depends on the order of the list only through the order of the   *)
(* sums, which exact fractions do not feel, so each multiset of users is   *)
(* listed once.                                                            *)
(***************************************************************************)
\* A user with the given group and click/impression counters, the metric
\* sums and counts following them.
UserWith(g, preC, preI, postC, postI) ==
    [group |-> g,
     preClicks |-> preC, preImpressions |-> preI,
     postClicks |-> postC, postImpressions |-> postI,
     preMetricSum |-> preC, postMetricSum |-> postC,
     preMetricCount |-> preI, postMetricCount |-> postI]

\* Five patterns with data in both periods and one with none after launch.
CupedProfiles ==
    <<UserWith("control", 0, 1, 0, 1),
      UserWith("control", 0, 1, 1, 1),
      UserWith("control", 1, 1, 1, 1),
      UserWith("treatment", 0, 1, 1, 1),
      UserWith("treatment", 1, 1, 1, 1),
      UserWith("control", 1, 1, 0, 0)>>

\* One proportion kind and one continuous kind: extractUserMetrics and
\* computeCUPED distinguish nothing else of the metric kind.
CupedKinds == {"ctr", "revenue"}

\* The lists of at most room users with patterns k, k + 1, ..., in that order.
RECURSIVE CupedLists(_, _)
CupedLists(k, room) ==
    IF k > Len(CupedProfiles) THEN {<<>>}
    ELSE UNION {{[i \in 1..c |-> CupedProfiles[k]] \o rest :
                   rest \in CupedLists(k + 1, room - c)} : c \in 0..room}

InitCuped ==
    /\ users \in CupedLists(1, MaxCupedUsers)
    /\ elapsed = 0
    /\ metricType \in CupedKinds
    /\ cupedResult = NotComputed
    /\ rendered = NotComputed
    /\ arrays = Unused /\ hook = Unused /\ store = Unused /\ sockets = Unused

\* const cupedResult = computeCUPED(users, config.metricType)
RenderCuped ==
    /\ cupedResult = NotComputed
    /\ cupedResult' = computeCUPED(users, metricType)
    /\ UNCHANGED <<users, elapsed, metricType, rendered>>
    /\ UNCHANGED otherVars

SpecCuped == InitCuped /\ [][RenderCuped]_vars

-----------------------------------------------------------------------------
(***************************************************************************)
(* The estimators of one render as functions of the user list: the lists   *)
(* of up to MaxStatsUsers users whose counters are one of eight small      *)
(* patterns (each multiset of users listed once), and the lists of one     *)
(* control and one treatment user with large counters.                     *)
(***************************************************************************)
\* A user with the given counters whose metric sums are given apart from
\* the clicks (a continuous metric).
UserWithSums(g, preSum, preCount, postSum, postCount) ==
    [group |-> g,
     preClicks |-> preCount, preImpressions |-> preCount,
     postClicks |-> postCount, postImpressions |-> postCount,
     preMetricSum |-> preSum, postMetricSum |-> postSum,
     preMetricCount |-> preCount, postMetricCount |-> postCount]

StatsProfiles ==
    <<NewUser("control"),
      UserWith("control", 0, 1, 1, 1),
      UserWith("control", 1, 2, 1, 2),
      UserWithSums("control", 5, 1, 4, 1),
      NewUser("treatment"),
      UserWith("treatment", 2, 4, 1, 2),
      UserWith("treatment", 1, 2, 2, 2),
      UserWithSums("treatment", 6, 1, 7, 1)>>

\* The lists of at most room users with patterns k, k + 1, ..., in that order.
RECURSIVE StatsLists(_, _)
StatsLists(k, room) ==
    IF k > Len(StatsProfiles) THEN {<<>>}
    ELSE UNION {{[i \in 1..c |-> StatsProfiles[k]] \o rest :
                   rest \in StatsLists(k + 1, room - c)} : c \in 0..room}

\* Control and treatment users with large counters.
LargeControls ==
    {UserWith("control", 50, 1000, 50, 1000),
     UserWith("control", 0, 50, 0, 50),
     UserWith("control", 0, 260, 0, 260)}

LargeTreatments ==
    {UserWith("treatment", 70, 1000, 60, 1000),
     UserWith("treatment", 70, 1000, 50, 1000),
     UserWith("treatment", 1, 50, 1, 50),
     UserWith("treatment", 0, 240, 0, 240)}

LargeLists == {<<c, t>> : c \in LargeControls, t \in LargeTreatments}

\* The confidence levels asked of confidenceInterval, in hundredths: the
\* three of its table and two others.
ConfidenceLevels == {90, 95, 99, 80, 50}

InitStats ==
    /\ users \in StatsLists(1, MaxStatsUsers) \cup LargeLists
    /\ elapsed = 0
    /\ metricType \in MetricTypes
    /\ cupedResult = NotComputed
    /\ rendered = NotComputed
    /\ arrays = Unused /\ hook = Unused /\ store = Unused /\ sockets = Unused

\* The values one render of useSimulation and ComparePanel computes from
\* the user list: the estimators and diagnostics applied to the summaries,
\* and confidenceInterval applied to the naive estimate at the given level.
renderedValues(us, kind, confidence) ==
    LET metrics == computeAggregatedMetrics(us)
        naiveResult == naiveABTest(metrics, kind, us)
        nControl == metrics.control.pre.impressions
                      + metrics.control.post.impressions
        nTreatment == metrics.treatment.pre.impressions
                        + metrics.treatment.post.impressions
        srmPValue == srmCheck(nControl, nTreatment)
    IN  [metrics |-> metrics,
         naiveResult |-> naiveResult,
         lift |-> computeRelativeLift(metrics, kind, us),
         imbalanceCheck |-> checkBaselineImbalance(metrics, kind),
         didResult |-> computeDiD(metrics, kind),
         parallelCheck |-> checkParallelTrends(metrics, kind),
         didRegression |-> didRegressionInterpretation(metrics, kind),
         nControl |-> nControl,
         nTreatment |-> nTreatment,
         srmPValue |-> srmPValue,
         srmOk |-> srmOk(srmPValue),
         confidence |-> confidence,
         interval |-> confidenceInterval(naiveResult.estimate,
                                         naiveResult.standardError, confidence)]

\* A variant of RenderStats in which the render keeps only the users that
\* have data, as if an estimator filtered the list in place.
RenderStatsFilteringInPlace ==
    /\ rendered = NotComputed
    /\ \E confidence \in ConfidenceLevels :
         rendered' = renderedValues(users, metricType, confidence)
    /\ cupedResult' = computeCUPED(users, metricType)
    /\ users' = SelectSeq(users, LAMBDA u : u.preImpressions + u.postImpressions > 0)
    /\ UNCHANGED <<elapsed, metricType>>
    /\ UNCHANGED otherVars

\* One render: every estimator and diagnostic is applied to the current
\* users; nothing is written to them.
RenderStats ==
    /\ rendered = NotComputed
    /\ \E confidence \in ConfidenceLevels :
         rendered' = renderedValues(users, metricType, confidence)
    /\ cupedResult' = computeCUPED(users, metricType)
    /\ UNCHANGED <<users, elapsed, metricType>>
    /\ UNCHANGED otherVars

SpecStats == InitStats /\ [][RenderStats]_vars

-----------------------------------------------------------------------------
(***************************************************************************)
(* The simulation with its renders: every state update of the hook         *)
(* (setUsers after a tick or a fast-forward step) is followed by a render  *)
(* that applies the estimators to the current users.                       *)
(***************************************************************************)
InitRendered ==
    /\ users = <<NewUser("control"), NewUser("treatment")>>
    /\ elapsed = 0
    /\ metricType \in CupedKinds
    /\ cupedResult = NotComputed
    /\ rendered = NotComputed
    /\ arrays = Unused /\ hook = Unused /\ store = Unused /\ sockets = Unused

\* The estimator results of a render of the users us.
renderOf(us) ==
    /\ rendered' = renderedValues(us, metricType, DefaultConfidence)
    /\ cupedResult' = computeCUPED(us, metricType)

\* The state update of one firing of the interval callback: the clock
\* advances and generateEventBatch applies eventsPerTick >= 1 events.
TickRendered ==
    \E simDelta \in 0..1, eventsPerTick \in 1..MaxBatch :
       /\ elapsed + simDelta <= MaxElapsed
       /\ TotalImpressions(users) + eventsPerTick <= MaxRenderedEvents
       /\ elapsed' = elapsed + simDelta
       /\ users' \in generateEventBatch(users, elapsed + simDelta, metricType,
                                        eventsPerTick)

\* The state update of one iteration of the loop of fastForward(days).
FastForwardRendered ==
    \E stepDuration \in 1..MaxElapsed :
       /\ elapsed + stepDuration <= MaxElapsed
       /\ users' \in fastForwardSimulation(users, metricType, stepDuration, elapsed,
                                           MaxRenderedEvents - TotalImpressions(users))
       /\ elapsed' = elapsed + stepDuration

\* A render with no event applied since the last one.
Rerender == users' = users /\ elapsed' = elapsed

\* A variant of NextRendered whose render reads the users as they were
\* before the state update.
NextRenderedStale ==
    /\ (TickRendered \/ FastForwardRendered \/ Rerender)
    /\ renderOf(users)
    /\ UNCHANGED metricType
    /\ UNCHANGED otherVars

\* Every state update is followed by the render it causes, which applies
\* the estimators to the users as updated.
NextRendered ==
    /\ (TickRendered \/ FastForwardRendered \/ Rerender)
    /\ renderOf(users')
    /\ UNCHANGED metricType
    /\ UNCHANGED otherVars

SpecRendered == InitRendered /\ [][NextRendered]_vars

-----------------------------------------------------------------------------
(***************************************************************************)
(* The array statistics of stats/utils.ts as functions of their arguments: *)
(* variance and covariance applied to every pair of arrays of up to        *)
(* MaxArrayLen elements.                                                   *)
(***************************************************************************)
\* The elements of the arrays: a negative number, 0 and a positive number.
ArrayValues == {Num(-1), Zero, Num(MaxArrayValue)}

\* The arrays of at most n elements.
RECURSIVE ArraysUpTo(_)
ArraysUpTo(n) ==
    IF n = 0 THEN {<<>>}
    ELSE LET shorter == ArraysUpTo(n - 1)
         IN  shorter \cup {Append(a, v) : a \in {b \in shorter : Len(b) = n - 1},
                                          v \in ArrayValues}

InitArrays ==
    /\ arrays \in {[x |-> x, y |-> y, results |-> NotComputed] :
                     x \in ArraysUpTo(MaxArrayLen), y \in ArraysUpTo(MaxArrayLen)}
    /\ users = <<>> /\ elapsed = 0 /\ metricType = "ctr"
    /\ cupedResult = NotComputed /\ rendered = NotComputed
    /\ hook = Unused /\ store = Unused /\ sockets = Unused

\* variance and covariance are called on the two arrays.
ApplyArrays ==
    /\ arrays.results = NotComputed
    /\ arrays' = [arrays EXCEPT !.results =
                    [covXY |-> covariance(arrays.x, arrays.y),
                     covYX |-> covariance(arrays.y, arrays.x),
                     covXX |-> covariance(arrays.x, arrays.x),
                     varX |-> variance(arrays.x)]]
    /\ UNCHANGED <<simVars, hook, store, sockets>>

SpecArrays == InitArrays /\ [][ApplyArrays]_vars

-----------------------------------------------------------------------------
(***************************************************************************)
(* The log and claim lists of the pipeline store (lib/store.ts).  A log or *)
(* a claim is represented by its arrival number, so that the order of      *)
(* arrival can be read off the lists.                                      *)
(***************************************************************************)
\* Array.prototype.slice(start) for a negative start: the last -start
\* elements, or the whole array when it is shorter.
sliceLast(s, count) ==
    IF Len(s) <= count THEN s ELSE SubSeq(s, Len(s) - count + 1, Len(s))

\* The counts given to slice in addLog and addClaim.
LogLimit == 500
ClaimLimit == 50

\* [...state.logs.slice(-500), log]
appendKeeping(list, entry, count) == Append(sliceLast(list, count), entry)

InitLogs ==
    /\ store = [logs |-> <<>>, claims |-> <<>>, logCalls |-> 0, claimCalls |-> 0]
    /\ users = <<>> /\ elapsed = 0 /\ metricType = "ctr"
    /\ cupedResult = NotComputed /\ rendered = NotComputed
    /\ arrays = Unused /\ hook = Unused /\ sockets = Unused

addLog ==
    /\ store.logCalls < MaxLogCalls
    /\ LET log == store.logCalls + 1
       IN  store' = [store EXCEPT !.logs = appendKeeping(@, log, LogLimit),
                                  !.logCalls = log]
    /\ UNCHANGED <<simVars, arrays, hook, sockets>>

addClaim ==
    /\ store.claimCalls < MaxClaimCalls
    /\ LET claim == store.claimCalls + 1
       IN  store' = [store EXCEPT !.claims = appendKeeping(@, claim, ClaimLimit),
                                  !.claimCalls = claim]
    /\ UNCHANGED <<simVars, arrays, hook, sockets>>

NextLogs == addLog \/ addClaim

SpecLogs == InitLogs /\ [][NextLogs]_vars
-----------------------------------------------------------------------------
(***************************************************************************)
(* The timer of the hook (hooks/useSimulation.ts): start, pause and reset  *)
(* as the control panel calls them, and the callbacks of the intervals     *)
(* setInterval has installed and clearInterval has not yet cleared.        *)
(* Intervals are numbered in the order of their creation; intervalRef 0 is *)
(* the null reference.                                                      *)
(***************************************************************************)
InitHook ==
    /\ users = <<>>
    /\ elapsed = 0
    /\ metricType = "ctr"
    /\ cupedResult = NotComputed
    /\ rendered = NotComputed
    /\ hook = [isRunning |-> FALSE, intervalRef |-> 0, timers |-> {}, started |-> 0]
    /\ arrays = Unused /\ store = Unused /\ sockets = Unused

\* The hook after pause(): clearInterval on the interval intervalRef holds.
paused(h) ==
    IF h.intervalRef # 0
    THEN [h EXCEPT !.isRunning = FALSE,
                   !.timers = @ \ {h.intervalRef},
                   !.intervalRef = 0]
    ELSE [h EXCEPT !.isRunning = FALSE]

\* start(): users are generated if there are none, and a new interval is
\* installed and stored in intervalRef.
start ==
    /\ hook.started < MaxStarts
    /\ IF Len(users) = 0 THEN users' \in generateUsers(MaxUsers) ELSE users' = users
    /\ LET id == hook.started + 1
       IN  hook' = [isRunning |-> TRUE, intervalRef |-> id,
                    timers |-> hook.timers \cup {id}, started |-> id]
    /\ UNCHANGED <<elapsed, metricType, cupedResult, rendered, arrays, store, sockets>>

\* pause()
pause ==
    /\ hook' = paused(hook)
    /\ UNCHANGED <<simVars, arrays, store, sockets>>

\* reset(): pause(), then initializeUsers().
reset ==
    /\ hook' = paused(hook)
    /\ users' \in generateUsers(MaxUsers)
    /\ elapsed' = 0
    /\ UNCHANGED <<metricType, cupedResult, rendered, arrays, store, sockets>>

\* The callback of an installed interval fires.
TickHook ==
    /\ \E id \in hook.timers, simDelta \in 0..1, eventsPerTick \in 1..MaxBatch :
         /\ elapsed + simDelta <= MaxElapsed
         /\ TotalImpressions(users) + eventsPerTick <= MaxEvents
         /\ elapsed' = elapsed + simDelta
         /\ users' \in generateEventBatch(users, elapsed + simDelta, metricType,
                                          eventsPerTick)
    /\ UNCHANGED <<metricType, cupedResult, rendered, hook, arrays, store, sockets>>

\* One iteration of the loop of fastForward(days).
FastForwardHook ==
    /\ \E stepDuration \in 1..MaxElapsed :
         /\ elapsed + stepDuration <= MaxElapsed
         /\ users' \in fastForwardSimulation(users, metricType, stepDuration, elapsed,
                                             MaxEvents - TotalImpressions(users))
         /\ elapsed' = elapsed + stepDuration
    /\ UNCHANGED <<metricType, cupedResult, rendered, hook, arrays, store, sockets>>

NextHook == start \/ pause \/ reset \/ TickHook \/ FastForwardHook

SpecHook == InitHook /\ [][NextHook]_vars
-----------------------------------------------------------------------------
(***************************************************************************)
(* The log WebSocket of the pipeline store (lib/store.ts).  sockets lists  *)
(* the WebSocket objects created so far with their readyState; store.ws is *)
(* the number of the socket the store holds, 0 for null.  The browser      *)
(* delivers the open, message and close events of a socket as separate     *)
(* tasks: close() only moves the socket to CLOSING, its close event comes  *)
(* later, and a socket that is not OPEN delivers no message.               *)
(***************************************************************************)
StepNames == {"manual_approval"}
StepStatuses == {"running", "awaiting_approval"}
MessageTypes == {"log", "status", "connected"}

InitSockets ==
    /\ sockets = <<>>
    /\ store = [ws |-> 0, wsConnected |-> FALSE, logs |-> <<>>,
                steps |-> [name \in StepNames |-> "idle"],
                pendingApproval |-> FALSE, received |-> 0]
    /\ users = <<>> /\ elapsed = 0 /\ metricType = "ctr"
    /\ cupedResult = NotComputed /\ rendered = NotComputed
    /\ arrays = Unused /\ hook = Unused

\* WebSocket.close(): a socket that is connecting or open starts closing.
close(socks, i) ==
    IF socks[i].readyState \in {"CONNECTING", "OPEN"}
    THEN [socks EXCEPT ![i].readyState = "CLOSING"]
    ELSE socks

\* initializeWebSocket(runId): the held socket is closed, a new one is
\* created with its callbacks and stored.
initializeWebSocket ==
    /\ Len(sockets) < MaxSockets
    /\ LET closed == IF store.ws # 0 THEN close(sockets, store.ws) ELSE sockets
       IN  sockets' = Append(closed, [readyState |-> "CONNECTING"])
    /\ store' = [store EXCEPT !.ws = Len(sockets) + 1]
    /\ UNCHANGED <<simVars, arrays, hook>>

\* disconnectWebSocket()
disconnectWebSocket ==
    /\ store.ws # 0
    /\ sockets' = close(sockets, store.ws)
    /\ store' = [store EXCEPT !.ws = 0, !.wsConnected = FALSE]
    /\ UNCHANGED <<simVars, arrays, hook>>

\* The connection of socket i is established: ws.onopen runs.
onopen(i) ==
    /\ sockets[i].readyState = "CONNECTING"
    /\ sockets' = [sockets EXCEPT ![i].readyState = "OPEN"]
    /\ store' = [store EXCEPT !.wsConnected = TRUE]
    /\ UNCHANGED <<simVars, arrays, hook>>

\* Socket i, being open, delivers a message: ws.onmessage runs.
onmessage(i, type, status) ==
    /\ sockets[i].readyState = "OPEN"
    /\ store.received < MaxMessages
    /\ LET number == store.received + 1
       IN  store' =
             IF type \in {"log", "connected"}
             THEN [store EXCEPT !.logs = appendKeeping(@, number, LogLimit),
                                !.received = number]
             ELSE [store EXCEPT !.steps["manual_approval"] = status,
                                !.pendingApproval =
                                    IF status = "awaiting_approval" THEN TRUE ELSE @,
                                !.received = number]
    /\ UNCHANGED <<sockets, simVars, arrays, hook>>

\* The connection of socket i is closed, by close() or by the other side or
\* by a failure: ws.onclose runs.
onclose(i) ==
    /\ sockets[i].readyState # "CLOSED"
    /\ sockets' = [sockets EXCEPT ![i].readyState = "CLOSED"]
    /\ store' = [store EXCEPT !.wsConnected = FALSE]
    /\ UNCHANGED <<simVars, arrays, hook>>

SocketOpens == \E i \in 1..Len(sockets) : onopen(i)
SocketDelivers ==
    \E i \in 1..Len(sockets), type \in MessageTypes, status \in StepStatuses :
       onmessage(i, type, status)
SocketCloses == \E i \in 1..Len(sockets) : onclose(i)

NextSockets ==
    \/ initializeWebSocket
    \/ disconnectWebSocket
    \/ SocketOpens
    \/ SocketDelivers
    \/ SocketCloses

SpecSockets == InitSockets /\ [][NextSockets]_vars
-----------------------------------------------------------------------------
(***************************************************************************)
(* Properties                                                              *)
(***************************************************************************)
\* The positions of a list, in order.
Positions(us) == [i \in 1..Len(us) |-> i]

\* The positions of the users of group g, in list order.
PositionsOf(us, g) == SelectSeq(Positions(us), LAMBDA i : us[i].group = g)

\* The name of the user counter behind a summary total.
CounterOf(period, total) ==
    IF period = "pre"
    THEN CASE total = "impressions" -> "preImpressions"
           [] total = "clicks" -> "preClicks"
           [] total = "metricSum" -> "preMetricSum"
           [] total = "metricCount" -> "preMetricCount"
    ELSE CASE total = "impressions" -> "postImpressions"
           [] total = "clicks" -> "postClicks"
           [] total = "metricSum" -> "postMetricSum"
           [] total = "metricCount" -> "postMetricCount"

Totals == {"impressions", "clicks", "metricSum", "metricCount"}

\* The sum of one counter over the users at the positions in S.
RECURSIVE SumAt(_, _, _)
SumAt(us, S, counter) ==
    IF S = {} THEN 0
    ELSE LET i == CHOOSE j \in S : TRUE
         IN  us[i][counter] + SumAt(us, S \ {i}, counter)

\* q is the fraction a / b (b > 0), stated without dividing.
IsRatio(q, a, b) == IsFinite(q) /\ q.n * b = a * q.d

\* C1: in every reachable state each of the four summaries holds, for
\* impressions, clicks, metricSum and metricCount, exactly the sum of that
\* counter over the users of the summary's group.
C1_SummaryIsExactSum ==
    LET metrics == computeAggregatedMetrics(users)
    IN  \A g \in Groups, p \in Periods, t \in Totals :
          metrics[g][p][t] =
            SumAt(users, {i \in 1..Len(users) : users[i].group = g}, CounterOf(p, t))

\* Both groups hold users with events, in both periods.
C1_Witness ==
    \E i, j \in 1..Len(users) :
      /\ users[i].group = "control" /\ users[j].group = "treatment"
      /\ users[i].preImpressions > 0 /\ users[j].postImpressions > 0
      /\ users[j].postMetricSum > 0

\* The counters of a user record.
Counters ==
    {"preImpressions", "preClicks", "preMetricSum", "preMetricCount",
     "postImpressions", "postClicks", "postMetricSum", "postMetricCount"}

\* The user lists one more tick or one more fast-forward step can leave
\* behind from the current state, within the events left of MaxEvents.
NextUserLists ==
    LET left == MaxEvents - TotalImpressions(users)
    IN  UNION ({generateEventBatch(users, elapsed + simDelta, metricType, eventsPerTick) :
                  simDelta \in 0..1,
                  eventsPerTick \in 1..(IF left < MaxBatch THEN left ELSE MaxBatch)}
               \cup {fastForwardSimulation(users, metricType, stepDuration, elapsed, left) :
                       stepDuration \in 1..MaxElapsed})

C3_RatesGuarded ==
    LET metrics == computeAggregatedMetrics(users)
    IN  \A g \in Groups, p \in Periods :
          LET m == metrics[g][p]
          IN  /\ IF m.impressions = 0 THEN m.ctr = Zero
                 ELSE IsRatio(m.ctr, m.clicks, m.impressions)
              /\ IF m.metricCount = 0 THEN m.metricMean = Zero
                 ELSE IsRatio(m.metricMean, m.metricSum, m.metricCount)
              /\ users = <<>> => m = EmptyGroupMetrics

\* One summary has no impressions while another has clicks and impressions.
C3_Witness ==
    LET metrics == computeAggregatedMetrics(users)
    IN  /\ metrics["control"]["pre"].impressions = 0
        /\ metrics["treatment"]["pre"].clicks > 0
        /\ metrics["treatment"]["post"].metricSum > 0

ContinuousKinds == {k \in MetricTypes : isContinuous(k)}
ProportionKinds == {k \in MetricTypes : ~isContinuous(k)}

\* The positions of group g's users with a metric count in the period.
WithCount(us, g, period) ==
    SelectSeq(PositionsOf(us, g),
              LAMBDA i : IF period = "pre" THEN us[i].preMetricCount > 0
                         ELSE us[i].postMetricCount > 0)

\* C4 (as claimed): for a continuous kind (here the configured one)
\* getUserMetricValues returns one data point sum/count per user of the group
\* with count > 0 in the period, a user with count > 0 and sum 0 included,
\* and none for the other users.
C4_OnePointPerUserWithCount ==
    \A kind \in ContinuousKinds \cap {metricType}, g \in Groups, p \in Periods :
      LET vals == getUserMetricValues(users, p, g, kind)
          idx == WithCount(users, g, p)
      IN  /\ Len(vals) = Len(idx)
          /\ \A k \in 1..Len(idx) :
               LET u == users[idx[k]]
               IN  IF p = "pre" THEN IsRatio(vals[k], u.preMetricSum, u.preMetricCount)
                   ELSE IsRatio(vals[k], u.postMetricSum, u.postMetricCount)

\* C5: for a proportion kind getUserMetricValues returns one entry per user
\* of the group, in list order: clicks/impressions, or 0 for a user with no
\* impressions in the period.
C5_OneEntryPerUser ==
    \A kind \in ProportionKinds, g \in Groups, p \in Periods :
      LET vals == getUserMetricValues(users, p, g, kind)
          idx == PositionsOf(users, g)
      IN  /\ Len(vals) = Cardinality({i \in 1..Len(users) : users[i].group = g})
          /\ Len(vals) = Len(idx)
          /\ \A k \in 1..Len(idx) :
               LET u == users[idx[k]]
                   impressions == IF p = "pre" THEN u.preImpressions ELSE u.postImpressions
                   clicks == IF p = "pre" THEN u.preClicks ELSE u.postClicks
               IN  IF impressions > 0 THEN IsRatio(vals[k], clicks, impressions)
                   ELSE vals[k] = Zero

\* A group holds a user without post impressions and a user with post
\* impressions but no post click: zero entries of both origins occur.
C5_Witness ==
    \E i, j \in 1..Len(users) :
      /\ i # j
      /\ users[i].group = users[j].group
      /\ users[i].postImpressions = 0 /\ users[i].preImpressions > 0
      /\ users[j].postImpressions > 0 /\ users[j].postClicks = 0

\* C6: extractUserMetrics returns, in list order, exactly the users with
\* data in both periods (impressions for proportion kinds, metric counts for
\* continuous kinds), each with the user's group and the two ratios.
C6_ExtractsUsersWithBothPeriods ==
    \A kind \in MetricTypes :
      LET out == extractUserMetrics(users, kind)
          both(i) == IF isContinuous(kind)
                     THEN users[i].preMetricCount > 0 /\ users[i].postMetricCount > 0
                     ELSE users[i].preImpressions > 0 /\ users[i].postImpressions > 0
      IN  /\ {out[k].userId : k \in 1..Len(out)} = {i \in 1..Len(users) : both(i)}
          /\ \A k \in 1..Len(out) : k > 1 => out[k - 1].userId < out[k].userId
          /\ \A k \in 1..Len(out) :
               LET u == users[out[k].userId]
               IN  /\ out[k].group = u.group
                   /\ IF isContinuous(kind)
                      THEN /\ IsRatio(out[k].preMetric, u.preMetricSum, u.preMetricCount)
                           /\ IsRatio(out[k].postMetric, u.postMetricSum, u.postMetricCount)
                      ELSE /\ IsRatio(out[k].preMetric, u.preClicks, u.preImpressions)
                           /\ IsRatio(out[k].postMetric, u.postClicks, u.postImpressions)

\* One user has events in both periods and is returned, the other has no
\* event and is dropped.
C6_Witness ==
    /\ Len(users) = 2
    /\ Len(extractUserMetrics(users, metricType)) = 1
    /\ \E i \in 1..2 : users[i].preImpressions = 0 /\ users[i].postImpressions = 0

\* The four counters of a user the metric kind reads: numerator and
\* denominator before launch, numerator and denominator after it.
CountsOf(u, kind) ==
    IF isContinuous(kind)
    THEN <<u.preMetricSum, u.preMetricCount, u.postMetricSum, u.postMetricCount>>
    ELSE <<u.preClicks, u.preImpressions, u.postClicks, u.postImpressions>>

\* The positions of the users with data in both periods.
Qualifying ==
    {i \in 1..Len(users) : /\ CountsOf(users[i], metricType)[2] > 0
                           /\ CountsOf(users[i], metricType)[4] > 0}

\* The pre-period and post-period values of a qualifying user.
RawPre(i) == Frac(CountsOf(users[i], metricType)[1], CountsOf(users[i], metricType)[2])
RawPost(i) == Frac(CountsOf(users[i], metricType)[3], CountsOf(users[i], metricType)[4])

\* The qualifying users of group g, in list order, and their post values.
QualifyingOf(g) ==
    SelectSeq(Positions(users), LAMBDA i : i \in Qualifying /\ users[i].group = g)
RawPosts(g) == [k \in 1..Len(QualifyingOf(g)) |-> RawPost(QualifyingOf(g)[k])]

\* computeCUPED has been called on the user list.
Computed == cupedResult # NotComputed

\* C7: with fewer than 10 qualifying users computeCUPED returns the neutral
\* result (estimate 0, standard error 0, interval [0, 0], pValue 1, not
\* significant, theta 0, variance fields 0); with exactly 10 it computes:
\* varianceBefore is the variance of the ten post values.
C7_NeutralBelowTenUsers ==
    Computed =>
      /\ Cardinality(Qualifying) < 10 =>
           /\ cupedResult.estimate = Zero
           /\ RootIsZero(cupedResult.standardError)
           /\ cupedResult.confidenceInterval = <<Bound(Zero), Bound(Zero)>>
           /\ cupedResult.pValue = One
           /\ cupedResult.significant = FALSE
           /\ cupedResult.theta = Zero
           /\ cupedResult.varianceReduction = Zero
           /\ cupedResult.varianceBefore = Zero
           /\ cupedResult.varianceAfter = Zero
      /\ Cardinality(Qualifying) = 10 =>
           cupedResult.varianceBefore
             = variance(RawPosts("control") \o RawPosts("treatment"))

\* Nine users of both groups qualify, with different post values, in a list
\* of eleven: the result is neutral although the list has more than ten users.
C7_Witness ==
    /\ Computed
    /\ Len(users) = 11
    /\ Cardinality(Qualifying) = 9
    /\ Len(QualifyingOf("control")) > 0 /\ Len(QualifyingOf("treatment")) > 0
    /\ \E i, j \in Qualifying : RawPost(i) # RawPost(j)

\* C8: with at least 10 qualifying users that all have the same pre-period
\* value, theta is 0, every adjusted value is the user's post value, and the
\* estimate is the mean post value of treatment minus that of control.
C8_ZeroPreVarianceIsNaive ==
    (/\ Computed
     /\ Cardinality(Qualifying) >= 10
     /\ \A i, j \in Qualifying : RawPre(i) = RawPre(j))
    => LET userMetrics == extractUserMetrics(users, metricType)
           meanX == mean(preOf(userMetrics))
       IN  /\ cupedResult.theta = Zero
           /\ \A g \in Groups :
                cupedAdjusted(armOf(userMetrics, g), cupedTheta(userMetrics), meanX)
                  = RawPosts(g)
           /\ cupedResult.estimate
                = Minus(mean(RawPosts("treatment")), mean(RawPosts("control")))
           /\ cupedResult.varianceAfter = cupedResult.varianceBefore

\* Ten or more users of both groups qualify, all with the same pre-period
\* value, and the post values differ between the groups.
C8_Witness ==
    /\ Computed
    /\ Cardinality(Qualifying) >= 10
    /\ \A i, j \in Qualifying : RawPre(i) = RawPre(j)
    /\ Len(QualifyingOf("control")) > 0 /\ Len(QualifyingOf("treatment")) > 0
    /\ ~IsZero(cupedResult.estimate)

\* C9: computeCUPED divides by no zero: the numbers of its result are
\* finite, in particular when all qualifying users are in one group.
C9_CupedResultFinite ==
    Computed =>
      /\ IsFinite(cupedResult.estimate)
      /\ RootIsFinite(cupedResult.standardError)
      /\ BoundIsFinite(cupedResult.confidenceInterval[1])
      /\ BoundIsFinite(cupedResult.confidenceInterval[2])
      /\ IsFinite(cupedResult.pValue)

\* C10: for the summaries of every reachable user list and every metric
\* kind, didRegressionInterpretation(...).interactionCoef equals the
\* estimate of computeDiD(...).
C10_InteractionCoefIsEstimate ==
    LET metrics == computeAggregatedMetrics(users)
    IN  \A kind \in MetricTypes :
          didRegressionInterpretation(metrics, kind).interactionCoef
            = didDeltas(metrics, kind).estimate

\* Both groups changed between the periods, the changes differ, and
\* computeDiD returns the estimate.
C10_Witness ==
    LET metrics == computeAggregatedMetrics(users)
        did == computeDiD(metrics, metricType)
    IN  /\ ~IsZero(did.treatDelta)
        /\ ~IsZero(did.ctrlDelta)
        /\ ~IsZero(did.estimate)
        /\ did.estimate = didDeltas(metrics, metricType).estimate
        /\ didRegressionInterpretation(metrics, metricType).interactionCoef = did.estimate

\* The estimators have been applied to the user list.
Rendered == rendered # NotComputed

\* The value of the rendered summary of group g and period p that the
\* metric kind reads.
ValueOf(g, p) ==
    IF metricType \in ContinuousKinds
    THEN rendered.metrics[g][p].metricMean
    ELSE rendered.metrics[g][p].ctr

PreGap == AbsNum(Minus(ValueOf("treatment", "pre"), ValueOf("control", "pre")))

\* The threshold the pre-period difference is compared with: 0.02 for
\* proportions, 20% of the control pre-period value for continuous kinds.
GapThreshold ==
    IF metricType \in ContinuousKinds
    THEN Times(ValueOf("control", "pre"), Frac(20, 100))
    ELSE Frac(2, 100)

\* C12: checkParallelTrends reports isParallel = false with a warning when
\* the absolute pre-period difference exceeds the threshold and isParallel =
\* true with a null warning when it does not exceed it (a difference equal
\* to the threshold and two continuous pre-period values of 0 included);
\* the warning is null exactly when isParallel is true.
C12_ParallelUnlessExceeds ==
    Rendered =>
      /\ rendered.parallelCheck.isParallel = ~Greater(PreGap, GapThreshold)
      /\ (rendered.parallelCheck.warning = "null") = rendered.parallelCheck.isParallel

\* C13: in the results of naiveABTest, computeCUPED and computeDiD,
\* significant is true exactly when pValue is below 0.05.
C13_SignificantBelowFivePercent ==
    Computed =>
      LET metrics == computeAggregatedMetrics(users)
          naive == naiveABTest(metrics, metricType, users)
          did == computeDiD(metrics, metricType)
          Below(p) == p.d > 0 /\ 100 * p.n < 5 * p.d
      IN  /\ cupedResult.significant = Below(cupedResult.pValue)
          /\ naive.significant = Below(naive.pValue)
          /\ did.significant = Below(did.pValue)

\* computeCUPED has found a significant result and naiveABTest, on the same
\* users, one that is not.
C13_Witness ==
    /\ Computed
    /\ cupedResult.significant
    /\ Less(cupedResult.pValue, Frac(5, 100))
    /\ LET naive == naiveABTest(computeAggregatedMetrics(users), metricType, users)
       IN  ~naive.significant /\ ~Less(naive.pValue, Frac(5, 100))

\* The sign of the offset z * se of an interval bound from its base.
OffsetSign(b) == Sign(b.z.n) * b.se.sign

\* The z-score of a confidence level given in hundredths.
LevelZ(confidence) ==
    IF confidence = 90 THEN Frac(1645, 1000)
    ELSE IF confidence = 99 THEN Frac(2576, 1000)
    ELSE Frac(196, 100)

\* C14: confidenceInterval uses z = 1.645, 1.96, 2.576 at the levels 0.90,
\* 0.95, 0.99 and 1.96 at any other level or when the level is omitted; for
\* a standard error se >= 0 the interval is estimate -/+ z * se, symmetric
\* about the estimate, with lower <= estimate <= upper, and of zero width
\* exactly when se = 0.
C14_IntervalAroundEstimate ==
    Rendered =>
      LET around(iv, estimate, se, z) ==
            (~IsNaN(se.square) /\ se.sign >= 0) =>
              /\ iv[1].base = estimate /\ iv[2].base = estimate
              /\ iv[1].se = iv[2].se
              /\ iv[1].z = Neg(iv[2].z)
              /\ OffsetSign(iv[1]) <= 0 /\ OffsetSign(iv[2]) >= 0
              /\ (iv[1] = iv[2]) = RootIsZero(se)
              /\ ~RootIsZero(se) => (iv[2].z = z /\ iv[2].se = se)
      IN  /\ around(rendered.interval, rendered.naiveResult.estimate,
                    rendered.naiveResult.standardError, LevelZ(rendered.confidence))
          /\ around(rendered.didResult.confidenceInterval, rendered.didResult.estimate,
                    rendered.didResult.standardError, Frac(196, 100))

\* An interval of positive width at the level 0.90 around an estimate that
\* is not 0.
C14_Witness ==
    /\ Rendered
    /\ rendered.confidence = 90
    /\ ~IsZero(rendered.naiveResult.estimate)
    /\ rendered.naiveResult.standardError.sign = 1
    /\ rendered.interval[2].z = Frac(329, 200)
    /\ OffsetSign(rendered.interval[1]) = -1
    /\ OffsetSign(rendered.interval[2]) = 1

\* No group has an impression or a metric value in either period.
NoEvents ==
    \A g \in Groups, p \in Periods :
      rendered.metrics[g][p].impressions = 0 /\ rendered.metrics[g][p].metricCount = 0

\* C15: for degenerate input whose standard error is 0 (here: no events in
\* either arm) naiveABTest and computeDiD return the neutral result:
\* estimate 0, standard error 0, a zero-width confidence interval, pValue
\* equal to 1 and never above it, significant false.
C15_NeutralAtZeroStandardError ==
    (Rendered /\ NoEvents) =>
      \A r \in {rendered.naiveResult, rendered.didResult} :
        RootIsZero(r.standardError) =>
          /\ IsZero(r.estimate)
          /\ r.confidenceInterval[1] = r.confidenceInterval[2]
          /\ r.pValue = One
          /\ ~Greater(r.pValue, One)
          /\ ~r.significant

\* The rendered post-period summaries of the two groups are the same.
SamePost == rendered.metrics.control.post = rendered.metrics.treatment.post

FiftyAgainstSixty ==
    /\ Rendered
    /\ metricType \in ProportionKinds
    /\ rendered.metrics.control.post.impressions = 1000
    /\ rendered.metrics.control.post.clicks = 50
    /\ rendered.metrics.treatment.post.impressions = 1000
    /\ rendered.metrics.treatment.post.clicks = 60

\* The number q in ten-millionths, for a q whose denominator divides 10^7.
TenMillionths(q) == q.n * (10000000 \div q.d)

\* The root r lies strictly between lo and hi, its square being given in
\* ten-millionths: lo^2 < 10^7 * r^2 < hi^2.
SquareBetween(r, loSquared, hiSquared) ==
    /\ r.sign = 1
    /\ 10000000 % r.square.d = 0
    /\ loSquared < TenMillionths(r.square)
    /\ TenMillionths(r.square) < hiSquared

\* C17 as stated: for these summaries naiveABTest returns estimate 0.01, the
\* standard error sqrt(0.05*0.95/1000 + 0.06*0.94/1000), approximately
\* 0.00934 (its square between 871 and 874 ten-millionths), a pValue above
\* 0.05 and significant = false.
C17_StandardErrorAsStated ==
    FiftyAgainstSixty =>
      LET r == rendered.naiveResult
      IN  /\ r.estimate = Frac(1, 100)
          /\ r.standardError =
               Sqrt(Plus(Div(Times(Frac(5, 100), Frac(95, 100)), Num(1000)),
                         Div(Times(Frac(6, 100), Frac(94, 100)), Num(1000))))
          /\ SquareBetween(r.standardError, 871, 874)
          /\ Greater(r.pValue, Frac(5, 100))
          /\ ~r.significant

\* C17, amended: for these summaries naiveABTest returns estimate 0.01, the
\* standard error sqrt(0.05*0.95/1000 + 0.06*0.94/1000) = sqrt(0.0001039),
\* approximately 0.01019 (its square between 1038 and 1040 ten-millionths),
\* a pValue above 0.05 and significant = false.
C17_StandardErrorOfExample ==
    FiftyAgainstSixty =>
      LET r == rendered.naiveResult
      IN  /\ r.estimate = Frac(1, 100)
          /\ r.standardError =
               Sqrt(Plus(Div(Times(Frac(5, 100), Frac(95, 100)), Num(1000)),
                         Div(Times(Frac(6, 100), Frac(94, 100)), Num(1000))))
          /\ r.standardError.square = Frac(1039, 10000000)
          /\ SquareBetween(r.standardError, 1038, 1040)
          /\ Greater(r.pValue, Frac(5, 100))
          /\ ~r.significant

\* The example has been rendered; its p-value lies between 0.05 and 1.
C17_Witness ==
    /\ FiftyAgainstSixty
    /\ rendered.naiveResult.estimate = Frac(1, 100)
    /\ Greater(rendered.naiveResult.pValue, Frac(5, 100))
    /\ Less(rendered.naiveResult.pValue, One)

\* (nControl - nTreatment)^2 / (nControl + nTreatment), for a total > 0.
SquaredGapOverTotal(nControl, nTreatment) ==
    Frac((nControl - nTreatment) * (nControl - nTreatment), nControl + nTreatment)

\* C18: srmCheck returns 1 when nControl + nTreatment = 0 and otherwise
\* exp(-chiSquared / 2), where chiSquared = (nControl - e)^2/e +
\* (nTreatment - e)^2/e with e the half of the total is (nControl -
\* nTreatment)^2 / (nControl + nTreatment) and symmetric in the two
\* arguments; SRM is reported ok exactly when the p-value is above 0.01, as
\* for 520/480 with chiSquared 1.6.
C18_SrmChiSquared ==
    Rendered =>
      LET nC == rendered.nControl
          nT == rendered.nTreatment
      IN  /\ nC + nT = 0 => rendered.srmPValue = One
          /\ nC + nT > 0 =>
               /\ srmChiSquared(nC, nT) = SquaredGapOverTotal(nC, nT)
               /\ srmChiSquared(nC, nT) = srmChiSquared(nT, nC)
               /\ rendered.srmPValue = ExpNegOf(Div(SquaredGapOverTotal(nC, nT), Num(2)))
               /\ srmCheck(nT, nC) = rendered.srmPValue
          /\ rendered.srmOk = (rendered.srmPValue.d > 0
                               /\ 100 * rendered.srmPValue.n > rendered.srmPValue.d)
          /\ (nC = 520 /\ nT = 480) =>
               srmChiSquared(nC, nT) = Frac(16, 10) /\ rendered.srmOk

\* The split 520/480 has been checked: its p-value exp(-0.8) is about 0.45.
C18_Witness ==
    /\ Rendered
    /\ rendered.nControl = 520
    /\ rendered.nTreatment = 480
    /\ rendered.srmOk
    /\ Greater(rendered.srmPValue, Frac(44, 100))
    /\ Less(rendered.srmPValue, Frac(46, 100))

\* C19: computeRelativeLift returns lift 0 and liftCI [0, 0] when the
\* control post-period value (ctr or metricMean, by kind) is 0; otherwise
\* lift = (treatment value - control value) / control value and liftCI is
\* the 95% interval around lift whose standard error is the naive standard
\* error divided by the control value.
C19_RelativeLift ==
    Rendered =>
      LET base == ValueOf("control", "post")
          treat == ValueOf("treatment", "post")
          se == rendered.naiveResult.standardError
          lift == rendered.lift.lift
          ci == rendered.lift.liftCI
      IN  IF IsZero(base)
          THEN lift = Zero /\ ci = <<Bound(Zero), Bound(Zero)>>
          ELSE /\ lift = Div(Minus(treat, base), base)
               /\ ci[1].base = lift /\ ci[2].base = lift
               /\ IF RootIsZero(se) THEN ci[1] = ci[2]
                  ELSE /\ ci[1].z = Frac(-196, 100) /\ ci[2].z = Frac(196, 100)
                       /\ ci[1].se = ci[2].se
                       /\ ci[2].se.sign = se.sign
                       /\ ci[2].se.square = Div(se.square, Times(base, base))

\* The control post-period value is 0 over 50 impressions while the
\* treatment one is not: the lift is reported as 0 with the interval [0, 0].
C19_Witness ==
    /\ Rendered
    /\ IsZero(ValueOf("control", "post"))
    /\ rendered.metrics.control.post.impressions = 50
    /\ ~IsZero(ValueOf("treatment", "post"))
    /\ rendered.lift.lift = Zero
    /\ rendered.lift.liftCI[1] = rendered.lift.liftCI[2]

\* The rendered summaries with the pre and post summaries of each group
\* exchanged.
PeriodsExchanged ==
    [g \in Groups |-> [pre |-> rendered.metrics[g].post,
                       post |-> rendered.metrics[g].pre]]

\* C20: for a proportion metric the preDifference and pValue of
\* checkBaselineImbalance are the estimate and pValue of naiveABTest on the
\* summaries with pre and post exchanged, and imbalanceDetected is true
\* exactly when that pValue is below 0.10.
C20_ImbalanceIsNaiveOnPrePeriod ==
    (Rendered /\ metricType \in ProportionKinds) =>
      LET naive == naiveABTest(PeriodsExchanged, metricType, users)
          check == rendered.imbalanceCheck
      IN  /\ check.preDifference = naive.estimate
          /\ check.pValue = naive.pValue
          /\ check.imbalanceDetected =
               (naive.pValue.d > 0 /\ 10 * naive.pValue.n < naive.pValue.d)

\* A pre-period difference whose pValue lies in [0.05, 0.10): imbalance is
\* flagged although the naive test on the same numbers is not significant.
C20_Witness ==
    /\ Rendered
    /\ metricType \in ProportionKinds
    /\ ~IsZero(rendered.imbalanceCheck.preDifference)
    /\ ~Less(rendered.imbalanceCheck.pValue, Frac(5, 100))
    /\ Less(rendered.imbalanceCheck.pValue, Frac(10, 100))
    /\ rendered.imbalanceCheck.imbalanceDetected
    /\ ~naiveABTest(PeriodsExchanged, metricType, users).significant

OtherCounterValues == <<<<0, 0, 0, 0>>, <<3, 3, 0, 2>>, <<1, 2, 2, 2>>>>

\* The users with the counters the kind does not read replaced: user i
\* receives the values number i + k.
WithOtherCounters(us, kind, k) ==
    [i \in 1..Len(us) |->
       LET a == OtherCounterValues[((i + k) % Len(OtherCounterValues)) + 1]
       IN  IF isContinuous(kind)
           THEN [us[i] EXCEPT !.preClicks = a[1], !.preImpressions = a[2],
                              !.postClicks = a[3], !.postImpressions = a[4]]
           ELSE [us[i] EXCEPT !.preMetricSum = a[1], !.preMetricCount = a[2],
                              !.postMetricSum = a[3], !.postMetricCount = a[4]]]

\* C23: the two counter sets are never mixed: for a proportion kind the
\* results of naiveABTest, checkBaselineImbalance, computeCUPED (and
\* extractUserMetrics), computeDiD, checkParallelTrends and
\* didRegressionInterpretation are the same whatever the users' metric sums
\* and counts are, and for a continuous kind whatever their clicks and
\* impressions are.
C23_CounterSetsNotMixed ==
    Rendered =>
      \A k \in 1..Len(OtherCounterValues) :
        LET others == WithOtherCounters(users, metricType, k)
            metrics == computeAggregatedMetrics(others)
        IN  /\ naiveABTest(metrics, metricType, others) = rendered.naiveResult
            /\ checkBaselineImbalance(metrics, metricType) = rendered.imbalanceCheck
            /\ extractUserMetrics(others, metricType) = extractUserMetrics(users, metricType)
            /\ computeCUPED(others, metricType) = cupedResult
            /\ computeDiD(metrics, metricType) = rendered.didResult
            /\ checkParallelTrends(metrics, metricType) = rendered.parallelCheck
            /\ didRegressionInterpretation(metrics, metricType) = rendered.didRegression

\* A continuous metric has been rendered for users whose clicks and
\* impressions, and so the click-through rates of the summaries, can be
\* replaced by others.
C23_Witness ==
    /\ Rendered
    /\ metricType = "revenue"
    /\ ~IsZero(rendered.didResult.estimate)
    /\ ~IsZero(rendered.naiveResult.estimate)
    /\ \E k \in 1..Len(OtherCounterValues) :
         computeAggregatedMetrics(WithOtherCounters(users, metricType, k)).treatment.pre.ctr
           # rendered.metrics.treatment.pre.ctr

\* C24: covariance(x, y) = covariance(y, x) for arrays of equal length;
\* covariance is 0 when the lengths differ or are below 2; covariance(x, x)
\* = variance(x), which is never negative and is 0 for arrays of length 0
\* or 1.
C24_CovarianceSymmetricVarianceNonNegative ==
    arrays.results # NotComputed =>
      LET x == arrays.x
          y == arrays.y
          r == arrays.results
      IN  /\ Len(x) = Len(y) => r.covXY = r.covYX
          /\ (Len(x) # Len(y) \/ Len(x) < 2) => r.covXY = Zero
          /\ r.covXX = r.varX
          /\ r.varX.d > 0 /\ r.varX.n >= 0
          /\ Len(x) < 2 => r.varX = Zero

\* Two arrays of three elements with a negative covariance, the first with
\* a positive variance.
C24_Witness ==
    /\ arrays.results # NotComputed
    /\ Len(arrays.x) = 3 /\ Len(arrays.y) = 3
    /\ Less(arrays.results.covXY, Zero)
    /\ Greater(arrays.results.varX, Zero)
    /\ arrays.results.covXY = arrays.results.covYX

\* The name of a counter of the period p.
CounterName(p, c) == p \o c

\* C25: one event applied with updateUserMetrics raises, on the user it is
\* applied to, the Impressions and MetricCount counters of the event's
\* period by 1, its Clicks by event.click and its MetricSum by
\* event.metricValue, and leaves the four counters of the other period and
\* the group unchanged; generateEventBatch with batch size k leaves the
\* other users of each event unchanged and raises the total impressions
\* over all users by exactly k.
C25_EventChangesOnePeriodOfOneUser ==
    /\ \A i \in 1..Len(users), t \in {elapsed, elapsed + 1} :
         \A event \in generateEvent(i, t, metricType) :
           LET after == updateUserMetrics(users[i], event)
               p == event.period
               q == IF p = "pre" THEN "post" ELSE "pre"
           IN  /\ after[CounterName(p, "Impressions")]
                    = users[i][CounterName(p, "Impressions")] + 1
               /\ after[CounterName(p, "MetricCount")]
                    = users[i][CounterName(p, "MetricCount")] + 1
               /\ after[CounterName(p, "Clicks")]
                    = users[i][CounterName(p, "Clicks")] + event.click
               /\ after[CounterName(p, "MetricSum")]
                    = users[i][CounterName(p, "MetricSum")] + event.metricValue
               /\ \A c \in {"Impressions", "MetricCount", "Clicks", "MetricSum"} :
                    after[CounterName(q, c)] = users[i][CounterName(q, c)]
               /\ after.group = users[i].group
               /\ [users EXCEPT ![i] = after]
                    \in generateEventBatch(users, t, metricType, 1)
    /\ \A k \in 0..MaxBatch, t \in {elapsed, elapsed + 1} :
         \A next \in generateEventBatch(users, t, metricType, k) :
           /\ TotalImpressions(next) = TotalImpressions(users) + k
           /\ Len(next) = Len(users)
           /\ k = 1 => Cardinality({i \in 1..Len(users) : next[i] # users[i]}) = 1

\* One user has received an event before launch and one after it, with a
\* click; the other user has received none.
C25_Witness ==
    /\ Len(users) = 2
    /\ \E i \in 1..2 :
         /\ users[i].preImpressions = 1 /\ users[i].postImpressions = 1
         /\ users[i].postClicks = 1 /\ users[i].preMetricCount = 1
         /\ users[3 - i] = NewUser(users[3 - i].group)
    /\ TotalImpressions(users) = 2


\* C26: after any sequence of addLog calls the store holds at most 500 logs,
\* the last ones in arrival order and the most recent one among them, and
\* after any sequence of addClaim calls at most 50 claims.
C26_AtMostLimitEntries ==
    /\ Len(store.logs) <= LogLimit
    /\ Len(store.claims) <= ClaimLimit
    /\ \A i \in 1..Len(store.logs) :
          store.logs[i] = store.logCalls - Len(store.logs) + i
    /\ \A i \in 1..Len(store.claims) :
          store.claims[i] = store.claimCalls - Len(store.claims) + i


PreCounters == {"preImpressions", "preClicks", "preMetricSum", "preMetricCount"}
PostCounters == Counters \ PreCounters

\* C28: an event generated at an elapsed time is a pre event exactly when
\* that time is below the launch time; once elapsed has reached the launch
\* time no tick and no fast-forward step changes a pre counter of any user;
\* and while elapsed is below the launch time every post counter is 0 (so a
\* fast-forward step that straddles the launch is the only step that fills
\* both periods).
C28_LaunchSeparatesPeriods ==
    /\ \A t \in elapsed..(MaxElapsed + 1), i \in 1..Len(users) :
          \A event \in generateEvent(i, t, metricType) :
             (event.period = "pre") <=> (t < LaunchTime)
    /\ elapsed >= LaunchTime =>
          \A next \in NextUserLists :
             \A i \in 1..Len(users), c \in PreCounters : next[i][c] = users[i][c]
    /\ elapsed < LaunchTime =>
          \A i \in 1..Len(users), c \in PostCounters : users[i][c] = 0

\* After the launch a user holds pre-period events and a further event can
\* still arrive.
C28_Witness ==
    /\ elapsed >= LaunchTime
    /\ TotalImpressions(users) < MaxEvents
    /\ \E i \in 1..Len(users) : users[i].preImpressions > 0
    /\ \E next \in NextUserLists : next # users


\* C29: at most one interval of the hook is installed at any time, and while
\* the simulation is not running (after pause() or reset(), until the next
\* start()) no interval is installed, so no tick can fire and change a
\* counter.
C29_AtMostOneTimer ==
    /\ Cardinality(hook.timers) <= 1
    /\ ~hook.isRunning => hook.timers = {}


\* The socket the store holds is open.
CurrentSocketOpen == store.ws # 0 /\ sockets[store.ws].readyState = "OPEN"

\* C30: wsConnected is true exactly when the socket the store holds is open;
\* the close event of a socket the store no longer holds does not clear
\* wsConnected once the held socket is open; and logs and step statuses
\* change only by messages of the held socket.
C30_ConnectedIffCurrentOpen ==
    /\ [](store.wsConnected <=> CurrentSocketOpen)
    /\ [][/\ \A i \in 1..Len(sockets) :
                (/\ i # store.ws
                 /\ sockets[i].readyState # "CLOSED"
                 /\ sockets'[i].readyState = "CLOSED"
                 /\ CurrentSocketOpen)
                => store'.wsConnected = store.wsConnected
          /\ (store'.logs # store.logs \/ store'.steps # store.steps)
                => CurrentSocketOpen]_vars

=============================================================================
